---- MODULE Spec2Model ----
(***************************************************************************)
(* Video URL resolution and session deduplication core of the Skool        *)
(* content extractor (skool_content_extractor.py) and of the modular       *)
(* VideoExtractor (skool_modules/video_extractor.py).                      *)
(*                                                                         *)
(* URLs and lesson titles are TLA+ strings; the regular expressions of the *)
(* source are evaluated on them character by character (leftmost match,    *)
(* alternatives in order, greedy classes), so canonicalisation, identity   *)
(* keys and the validity gate are computed, not assumed.                   *)
(***************************************************************************)
EXTENDS Integers, Sequences, FiniteSets, TLC

(***************************************************************************)
(* String helpers (Python str / re semantics)                              *)
(***************************************************************************)
Min(S) == CHOOSE x \in S : \A y \in S : x <= y

\* s[i:i+len(t)] == t  (1-based i)
StartsAt(s, i, t) == /\ i >= 1
                     /\ i + Len(t) - 1 <= Len(s)
                     /\ SubSeq(s, i, i + Len(t) - 1) = t

\* t in s
Contains(s, t) == \E i \in 1..(Len(s) - Len(t) + 1) : StartsAt(s, i, t)

\* s.startswith(t), s.endswith(t)
StartsWith(s, t) == StartsAt(s, 1, t)
EndsWith(s, t) == Len(t) <= Len(s) /\ StartsAt(s, Len(s) - Len(t) + 1, t)

\* s.find(t) + 1, or 0 when t does not occur
Find(s, t) == IF Contains(s, t)
              THEN Min({i \in 1..(Len(s) - Len(t) + 1) : StartsAt(s, i, t)})
              ELSE 0

UPPER == "ABCDEFGHIJKLMNOPQRSTUVWXYZ"
LOWER == "abcdefghijklmnopqrstuvwxyz"
DIGITS == "0123456789"

CharsOf(s) == {SubSeq(s, i, i) : i \in 1..Len(s)}

Digit == CharsOf(DIGITS)
\* [a-zA-Z0-9]
AlNum == CharsOf(UPPER) \cup CharsOf(LOWER) \cup Digit
\* [a-zA-Z0-9_-]
IdChar == AlNum \cup {"_", "-"}

\* [A-Z]
UpperChars == CharsOf(UPPER)

LowerChar(c) == IF c \in UpperChars
                THEN LET i == CHOOSE j \in 1..Len(UPPER) : SubSeq(UPPER, j, j) = c
                     IN SubSeq(LOWER, i, i)
                ELSE c

RECURSIVE Lower(_)
\* str.lower()
Lower(s) == IF Len(s) = 0 THEN ""
            ELSE LowerChar(SubSeq(s, 1, 1)) \o Lower(SubSeq(s, 2, Len(s)))

RECURSIVE ClassRun(_, _, _)
\* length of the longest run of characters of class cls starting at s[i]
ClassRun(s, i, cls) == IF i > Len(s) \/ SubSeq(s, i, i) \notin cls THEN 0
                       ELSE 1 + ClassRun(s, i + 1, cls)

\* re.search(r'(?:l1|l2|...)([cls]{n})', s).group(1), "" when there is no
\* match: leftmost position, alternatives in the order of lits.
SearchFixed(s, lits, cls, n) ==
    LET ok(i, k) == StartsAt(s, i, lits[k]) /\ ClassRun(s, i + Len(lits[k]), cls) >= n
        P == {i \in 1..Len(s) : \E k \in 1..Len(lits) : ok(i, k)}
    IN IF P = {} THEN ""
       ELSE LET i == Min(P)
                k == Min({j \in 1..Len(lits) : ok(i, j)})
                b == i + Len(lits[k])
            IN SubSeq(s, b, b + n - 1)

\* re.search(r'(?:l1|l2|...)([cls]+)', s).group(1), "" when there is no match
SearchPlus(s, lits, cls) ==
    LET ok(i, k) == StartsAt(s, i, lits[k]) /\ ClassRun(s, i + Len(lits[k]), cls) >= 1
        P == {i \in 1..Len(s) : \E k \in 1..Len(lits) : ok(i, k)}
    IN IF P = {} THEN ""
       ELSE LET i == Min(P)
                k == Min({j \in 1..Len(lits) : ok(i, j)})
                b == i + Len(lits[k])
            IN SubSeq(s, b, b + ClassRun(s, b, cls) - 1)

\* s.split(sep)[0]
Before(s, sep) == IF Contains(s, sep) THEN SubSeq(s, 1, Find(s, sep) - 1) ELSE s

\* the text after the first occurrence of sep ("" when sep does not occur)
After(s, sep) == IF Contains(s, sep)
                 THEN SubSeq(s, Find(s, sep) + Len(sep), Len(s))
                 ELSE ""

\* urllib.parse.urlparse(s).path for "scheme://netloc/path?query#fragment"
\* and for scheme-less strings (the whole text before ? and # is the path)
UrlPath(s) ==
    LET nofrag == Before(Before(s, "#"), "?")
    IN IF Contains(nofrag, "://")
       THEN LET rest == After(nofrag, "://")
            IN IF Contains(rest, "/") THEN SubSeq(rest, Find(rest, "/"), Len(rest)) ELSE ""
       ELSE nofrag

\* urllib.parse.urlparse(s).query
UrlQuery(s) == Before(After(s, "?"), "#")

\* urllib.parse.unquote for the escapes that occur in wrapped video URLs
RECURSIVE unquote(_)
unquote(s) ==
    IF Len(s) = 0 THEN ""
    ELSE IF StartsAt(s, 1, "%3A") THEN ":" \o unquote(SubSeq(s, 4, Len(s)))
    ELSE IF StartsAt(s, 1, "%2F") THEN "/" \o unquote(SubSeq(s, 4, Len(s)))
    ELSE IF StartsAt(s, 1, "%3F") THEN "?" \o unquote(SubSeq(s, 4, Len(s)))
    ELSE IF StartsAt(s, 1, "%3D") THEN "=" \o unquote(SubSeq(s, 4, Len(s)))
    ELSE IF StartsAt(s, 1, "%26") THEN "&" \o unquote(SubSeq(s, 4, Len(s)))
    ELSE SubSeq(s, 1, 1) \o unquote(SubSeq(s, 2, Len(s)))

RECURSIVE QueryParam(_, _)
\* urllib.parse.parse_qs(q).get(name, [None])[0], "" for None
QueryParam(q, name) ==
    IF Len(q) = 0 THEN ""
    ELSE LET part == Before(q, "&")
             rest == After(q, "&")
         IN IF StartsWith(part, name \o "=") /\ Len(part) > Len(name) + 1
            THEN unquote(SubSeq(part, Len(name) + 2, Len(part)))
            ELSE QueryParam(rest, name)

RECURSIVE split(_)
\* str.split(): the whitespace-separated words of s, as a sequence
split(s) ==
    IF Len(s) = 0 THEN << >>
    ELSE IF StartsWith(s, " ") THEN split(SubSeq(s, 2, Len(s)))
    ELSE <<Before(s, " ")>> \o split(After(s, " "))

(***************************************************************************)
(* Pure functions of skool_content_extractor.py                            *)
(***************************************************************************)
\* Python's None where a string is expected; "" is the empty string
NoneStr == "<None>"

\* an int argument left at its default None
NoneInt == -1
\* `not video_url`
Falsy(s) == s = NoneStr \/ s = ""

CACHED_VIDEO_BLACKLIST == {"YTrIwmIdaJI", "UDcrRdfB0x8", "7snrj0uEaDw", "65GvYDdzJWU"}

\* the group captured by the k-th entry of video_id_patterns in video_url,
\* else in stripped_url, "" when neither matches
video_id_patterns(k, url) ==
    CASE k = 1 -> SearchFixed(url, <<"youtube.com/watch?v=", "youtu.be/">>, IdChar, 11)
      [] k = 2 -> SearchFixed(url, <<"youtube.com/embed/">>, IdChar, 11)
      [] k = 3 -> SearchFixed(url, <<"youtube-nocookie.com/embed/", "youtube-nocookie.com/">>, IdChar, 11)
      [] k = 4 -> SearchPlus(url, <<"vimeo.com/">>, Digit)
      [] k = 5 -> SearchPlus(url, <<"loom.com/share/">>, IdChar)
      [] k = 6 -> SearchPlus(url, <<"wistia.com/medias/">>, IdChar)

\* Mutant: the youtube-nocookie pattern is missing from video_id_patterns
is_valid_lesson_video_without_nocookie(video_url) ==
    IF Falsy(video_url) THEN FALSE
    ELSE LET stripped_url == Before(Before(video_url, "?"), "#")
             match(k) == IF video_id_patterns(k, video_url) # ""
                         THEN video_id_patterns(k, video_url)
                         ELSE video_id_patterns(k, stripped_url)
             hits == {k \in {1, 2, 4, 5, 6} : match(k) # ""}
         IN IF hits = {} THEN TRUE
            ELSE match(Min(hits)) \notin CACHED_VIDEO_BLACKLIST

is_valid_lesson_video(video_url) ==
    IF Falsy(video_url) THEN FALSE
    ELSE LET stripped_url == Before(Before(video_url, "?"), "#")
             match(k) == IF video_id_patterns(k, video_url) # ""
                         THEN video_id_patterns(k, video_url)
                         ELSE video_id_patterns(k, stripped_url)
             hits == {k \in 1..6 : match(k) # ""}
         IN IF hits = {} THEN TRUE
            ELSE match(Min(hits)) \notin CACHED_VIDEO_BLACKLIST

\* Mutant: the YouTube key pattern lacks the /embed/ alternative
_extract_video_id_generic_without_embed(video_url) ==
    IF Falsy(video_url) THEN NoneStr
    ELSE LET yt == SearchFixed(video_url, <<"youtube.com/watch?v=", "youtu.be/">>, IdChar, 11)
             vimeo == SearchPlus(video_url, <<"vimeo.com/">>, Digit)
             loom == SearchPlus(video_url, <<"loom.com/share/", "loom.com/embed/", "loom.com/">>, AlNum)
             wistia == SearchPlus(video_url, <<"wistia.com/medias/", "wistia.com/">>, IdChar)
         IN IF yt # "" THEN "yt:" \o yt
            ELSE IF vimeo # "" THEN "vimeo:" \o vimeo
            ELSE IF loom # "" THEN "loom:" \o loom
            ELSE IF wistia # "" THEN "wistia:" \o wistia
            ELSE IF UrlPath(video_url) # "" THEN "file:" \o Lower(UrlPath(video_url))
            ELSE Lower(video_url)

_extract_video_id_generic(video_url) ==
    IF Falsy(video_url) THEN NoneStr
    ELSE LET yt == SearchFixed(video_url, <<"youtube.com/watch?v=", "youtu.be/", "youtube.com/embed/">>, IdChar, 11)
             vimeo == SearchPlus(video_url, <<"vimeo.com/">>, Digit)
             loom == SearchPlus(video_url, <<"loom.com/share/", "loom.com/embed/", "loom.com/">>, AlNum)
             wistia == SearchPlus(video_url, <<"wistia.com/medias/", "wistia.com/">>, IdChar)
         IN IF yt # "" THEN "yt:" \o yt
            ELSE IF vimeo # "" THEN "vimeo:" \o vimeo
            ELSE IF loom # "" THEN "loom:" \o loom
            ELSE IF wistia # "" THEN "wistia:" \o wistia
            ELSE IF UrlPath(video_url) # "" THEN "file:" \o Lower(UrlPath(video_url))
            ELSE Lower(video_url)

detect_platform(video_url) ==
    IF Falsy(video_url) THEN "unknown"
    ELSE LET url_lower == Lower(video_url)
         IN IF Contains(url_lower, "youtube.com") \/ Contains(url_lower, "youtu.be") THEN "youtube"
            ELSE IF Contains(url_lower, "vimeo.com") THEN "vimeo"
            ELSE IF Contains(url_lower, "loom.com") THEN "loom"
            ELSE IF Contains(url_lower, "wistia.com") \/ Contains(url_lower, "wistia.net") THEN "wistia"
            ELSE IF \E ext \in {".mp4", ".webm", ".avi", ".mov"} : Contains(url_lower, ext) THEN "direct"
            ELSE "unknown"

\* Mutant: the URL wrapped in an oEmbed URL is unwrapped but not cleaned
clean_video_url_unwrapping_only(video_url, platform) ==
    IF Falsy(video_url) THEN video_url
    ELSE IF platform = "youtube" THEN
        LET wrapped == QueryParam(UrlQuery(video_url), "url")
            embed_match == SearchFixed(video_url, <<"youtube.com/embed/">>, IdChar, 11)
            watch_match == SearchFixed(video_url, <<"?v=", "&v=">>, IdChar, 11)
            short_match == SearchFixed(video_url, <<"youtu.be/">>, IdChar, 11)
        IN IF Contains(video_url, "youtube.com/oembed") /\ wrapped # ""
           THEN unquote(wrapped)
           ELSE IF embed_match # "" THEN "https://www.youtube.com/watch?v=" \o embed_match
           ELSE IF watch_match # "" THEN "https://www.youtube.com/watch?v=" \o watch_match
           ELSE IF short_match # "" THEN "https://www.youtube.com/watch?v=" \o short_match
           ELSE video_url
    ELSE IF platform = "vimeo" THEN
        LET vimeo_match == SearchPlus(video_url, <<"vimeo.com/">>, Digit)
        IN IF vimeo_match # "" THEN "https://vimeo.com/" \o vimeo_match ELSE video_url
    ELSE IF platform = "loom" THEN
        LET loom_match == SearchPlus(video_url, <<"loom.com/share/", "loom.com/embed/", "loom.com/">>, AlNum)
        IN IF loom_match # "" THEN "https://www.loom.com/share/" \o loom_match ELSE video_url
    ELSE IF platform = "wistia" THEN
        LET m == SearchPlus(video_url, <<"wistia.com/medias/", "fast.wistia.net/embed/iframe/">>, IdChar)
        IN IF m # "" THEN "https://fast.wistia.net/embed/iframe/" \o m ELSE video_url
    ELSE video_url

RECURSIVE clean_video_url(_, _)
clean_video_url(video_url, platform) ==
    IF Falsy(video_url) THEN video_url
    ELSE IF platform = "youtube" THEN
        LET wrapped == QueryParam(UrlQuery(video_url), "url")
            embed_match == SearchFixed(video_url, <<"youtube.com/embed/">>, IdChar, 11)
            watch_match == SearchFixed(video_url, <<"?v=", "&v=">>, IdChar, 11)
            short_match == SearchFixed(video_url, <<"youtu.be/">>, IdChar, 11)
        IN IF Contains(video_url, "youtube.com/oembed") /\ wrapped # ""
           THEN clean_video_url(unquote(wrapped), "youtube")
           ELSE IF embed_match # "" THEN "https://www.youtube.com/watch?v=" \o embed_match
           ELSE IF watch_match # "" THEN "https://www.youtube.com/watch?v=" \o watch_match
           ELSE IF short_match # "" THEN "https://www.youtube.com/watch?v=" \o short_match
           ELSE video_url
    ELSE IF platform = "vimeo" THEN
        LET vimeo_match == SearchPlus(video_url, <<"vimeo.com/">>, Digit)
        IN IF vimeo_match # "" THEN "https://vimeo.com/" \o vimeo_match ELSE video_url
    ELSE IF platform = "loom" THEN
        LET loom_match == SearchPlus(video_url, <<"loom.com/share/", "loom.com/embed/", "loom.com/">>, AlNum)
        IN IF loom_match # "" THEN "https://www.loom.com/share/" \o loom_match ELSE video_url
    ELSE IF platform = "wistia" THEN
        LET m == SearchPlus(video_url, <<"wistia.com/medias/", "fast.wistia.net/embed/iframe/">>, IdChar)
        IN IF m # "" THEN "https://fast.wistia.net/embed/iframe/" \o m ELSE video_url
    ELSE video_url

common_words == {"the", "a", "an", "and", "or", "but", "in", "on", "at", "to", "for", "of",
                 "with", "by", "is", "are", "was", "were", "be", "been", "have", "has", "had",
                 "do", "does", "did", "will", "would", "could", "should", "may", "might",
                 "can", "this", "that", "these", "those"}

\* the identifiers (a list in the source; only membership is used)
_extract_lesson_identifiers(lesson_title) ==
    LET words == split(Lower(lesson_title))
        key_words == SelectSeq(words, LAMBDA w : w \notin common_words /\ Len(w) > 2)
        lesson_number == SearchPlus(lesson_title, <<"">>, Digit)
    IN {lesson_title}
       \cup {key_words[i] : i \in 1..Len(key_words)}
       \cup {key_words[i] \o "-" \o key_words[i + 1] : i \in 1..(Len(key_words) - 1)}
       \cup (IF lesson_number # "" THEN {lesson_number} ELSE {})

(***************************************************************************)
(* Bounds and the input universe                                           *)
(***************************************************************************)
\* top-level calls (reset, register, lesson) made in one run of the model
MaxClock == 2

\* lesson titles handed to extract_video_url / register_video_in_session
Titles == {"Intro", "Lesson 1"}

\* video references a lesson page can surface (iframe src, JSON field, network
\* request): one video in three URL forms and a blacklisted one
PageUrls == {"https://www.youtube.com/embed/dQw4w9WgXcQ?x=1",
             "https://www.youtube-nocookie.com/embed/dQw4w9WgXcQ",
             "https://www.youtube.com/watch?feature=share&v=dQw4w9WgXcQ",
             "https://youtu.be/YTrIwmIdaJI"}

\* URLs handed to register_video_in_session directly (test_session_tracking.py)
RegisterUrls == {"https://www.youtube.com/watch?v=dQw4w9WgXcQ",
                 "https://youtu.be/dQw4w9WgXcQ"}

RegisterMethods == {"METHOD_1_JSON"}

\* the recorded URL of a lesson (base_url + md_value)
LessonUrl(title) == "https://www.skool.com/c/classroom?md=" \o title

\* what the browser shows while a lesson is extracted: alive is FALSE when the
\* browser has crashed (every driver access raises); title_present,
\* video_context_present and url_in_text say what body.text contains;
\* containers says whether a lesson/content/video/player-classed element exists
Drivers(title) ==
    {[alive |-> TRUE, current_url |-> LessonUrl(title), title_present |-> TRUE,
      video_context_present |-> TRUE, url_in_text |-> FALSE, containers |-> TRUE],
     [alive |-> TRUE, current_url |-> "https://www.skool.com/c/classroom", title_present |-> FALSE,
      video_context_present |-> TRUE, url_in_text |-> FALSE, containers |-> TRUE],
     [alive |-> TRUE, current_url |-> "https://www.skool.com/c/classroom", title_present |-> FALSE,
      video_context_present |-> FALSE, url_in_text |-> FALSE, containers |-> FALSE],
     [alive |-> FALSE, current_url |-> "", title_present |-> FALSE,
      video_context_present |-> FALSE, url_in_text |-> FALSE, containers |-> FALSE]}

\* driver=None
NoDriver == [alive |-> FALSE, current_url |-> NoneStr, title_present |-> FALSE,
             video_context_present |-> FALSE, url_in_text |-> FALSE, containers |-> FALSE]

\* video_data is None
None == [url |-> NoneStr, platform |-> NoneStr]

\* URLs handed to the pure URL functions and to _final_video_validation when
\* they are called directly (test_validation.py, test_session_tracking.py):
\* one YouTube video in every URL form, the blacklisted IDs, the other
\* platforms, a media file, strings that are no video URL, and image URLs
UrlInputs == {"https://youtu.be/dQw4w9WgXcQ",
              "https://www.youtube.com/embed/dQw4w9WgXcQ?x=1",
              "https://www.youtube.com/watch?v=dQw4w9WgXcQ&t=5",
              "https://www.youtube-nocookie.com/embed/dQw4w9WgXcQ",
              "https://www.youtube.com/watch?feature=share&v=dQw4w9WgXcQ",
              "https://www.youtube.com/oembed?url=https%3A%2F%2Fyoutu.be%2FdQw4w9WgXcQ",
              "https://www.youtube.com/watch?v=VALID_UNIQUE_ID",
              "https://youtu.be/65GvYDdzJWU",
              "https://www.youtube.com/watch?v=65GvYDdzJWU",
              "https://www.youtube.com/embed/65GvYDdzJWU",
              "https://www.youtube-nocookie.com/embed/65GvYDdzJWU",
              "https://youtu.be/UDcrRdfB0x8",
              "https://vimeo.com/123456789?h=abc",
              "https://www.loom.com/embed/abc123def456",
              "https://www.loom.com/share/abc123def456?sid=1",
              "https://company.wistia.com/medias/abc123xyz",
              "https://cdn.example.com/videos/lesson1.mp4",
              "https://example.com/page",
              "x",
              "",
              "https://www.youtube.com/vi/dQw4w9WgXcQ/hqdefault.jpg",
              "https://vimeo.com/image_crop/1.webp",
              "https://assets.skool.com/f/thumb.png",
              "https://media.example.com/anim.gif"}

\* what clean_video_url makes of the UrlInputs
CanonicalUrls == {"https://www.youtube.com/watch?v=dQw4w9WgXcQ",
                  "https://www.youtube.com/watch?v=VALID_UNIQU",
                  "https://www.youtube.com/watch?v=65GvYDdzJWU",
                  "https://www.youtube.com/watch?v=UDcrRdfB0x8",
                  "https://vimeo.com/123456789",
                  "https://www.loom.com/share/abc123def456",
                  "https://fast.wistia.net/embed/iframe/abc123xyz"}

\* platform tags handed to clean_video_url
PlatformTags == {"youtube", "vimeo", "loom", "wistia", "direct", "unknown"}

\* lesson titles of the direct _final_video_validation calls
DirectTitles == {"Test Integration Lesson", "Test Integration Lesson 2 (Duplicate)"}

(***************************************************************************)
(* Extraction strategies: what each one can hand back for the current page *)
(***************************************************************************)
Raw(u) == [url |-> u, platform |-> detect_platform(u)]
Cleaned(u) == [url |-> clean_video_url(u, detect_platform(u)), platform |-> detect_platform(u)]

\* METHOD_0: iframe src found after the click / inside the modal, cleaned
detect_modal_video_player ==
    {Cleaned(u) : u \in {v \in PageUrls :
        \E d \in {"youtube", "vimeo", "loom", "wistia"} : Contains(Lower(v), d)}}

\* METHOD_1: lesson.video.video_url as found (validated), or a Skool video id
extract_from_next_data ==
    {Raw(u) : u \in {v \in PageUrls : is_valid_lesson_video(v)}}
    \cup {[url |-> "skool-video-id:a1b2c3", platform |-> "unknown"]}

\* METHOD_2: iframe of a known platform after clicking the player, cleaned and validated
click_video_player_and_extract ==
    {c \in {Cleaned(u) : u \in PageUrls} :
        c.platform # "unknown" /\ is_valid_lesson_video(c.url)}

\* METHOD_3: iframe of a known platform below the header, cleaned and validated
scan_video_iframes_filtered == click_video_player_and_extract

\* METHOD_4: best media URL of the performance log, cleaned, not validated
_extract_video_from_network_logs == {Cleaned(u) : u \in PageUrls}

\* METHOD_5: youtu.be/<id> built from a YouTube iframe src, or the raw src
extract_youtube_url_legacy ==
    {LET id == SearchFixed(u, <<"youtube.com/embed/", "youtube.com/watch?v=", "youtu.be/">>, IdChar, 11)
     IN [url |-> IF id # "" THEN "https://youtu.be/" \o id ELSE u, platform |-> "youtube"]
     : u \in {v \in PageUrls : Contains(v, "youtube.com")}}

StrategyResults(m) ==
    CASE m = 0 -> detect_modal_video_player
      [] m = 1 -> extract_from_next_data
      [] m = 2 -> click_video_player_and_extract
      [] m = 3 -> scan_video_iframes_filtered
      [] m = 4 -> _extract_video_from_network_logs
      [] m = 5 -> extract_youtube_url_legacy

MethodName(m) ==
    CASE m = 0 -> "METHOD_0_MODAL"
      [] m = 1 -> "METHOD_1_JSON"
      [] m = 2 -> "METHOD_2_CLICK"
      [] m = 3 -> "METHOD_3_IFRAME"
      [] m = 4 -> "METHOD_4_NETWORK"
      [] m = 5 -> "METHOD_5_LEGACY"

LastMethod == 5

\* Mutant: the JSON read and the click strategy change places
NextMethod_click_before_json(m) ==
    IF m = 0 THEN 2 ELSE IF m = 2 THEN 1 ELSE IF m = 1 THEN 3 ELSE m + 1

\* the strategy tried after strategy m
NextMethod(m) == m + 1

(***************************************************************************)
(* The pure URL functions, tabulated over the URLs of the input universe   *)
(***************************************************************************)
\* every URL the session functions are handed: the page URLs, what the
\* strategies make of them (clean_video_url, the legacy youtu.be form, the
\* Skool video-id reference) and the URLs registered directly
Urls == PageUrls \cup RegisterUrls
        \cup {"https://www.youtube.com/watch?v=YTrIwmIdaJI", "skool-video-id:a1b2c3"}
        \cup UrlInputs \cup CanonicalUrls

Platforms == {"youtube", "vimeo", "loom", "wistia", "direct", "unknown"}

video_id_table == [u \in Urls |-> _extract_video_id_generic(u)]

valid_table == [u \in Urls |-> is_valid_lesson_video(u)]

clean_table == [u \in Urls |-> [p \in Platforms |-> clean_video_url(u, p)]]

\* Method 1 of validate_video_belongs_to_lesson: the URL contains an identifier
\* of the lesson title
UrlHasIdentifier(url_lower, t) ==
    \E identifier \in _extract_lesson_identifiers(t) : Contains(url_lower, Lower(identifier))

identifier_table == [u \in Urls |-> [t \in Titles \cup DirectTitles \cup {"Unknown Lesson"} |->
    UrlHasIdentifier(Lower(u), t)]]

lowercase_table == [u \in Urls |-> Lower(u) = u]

platform_table == [u \in Urls |-> detect_platform(u)]

(***************************************************************************)
(* State                                                                   *)
(***************************************************************************)
VARIABLES
    SEEN_VIDEO_IDS_SESSION,      \* set of identity keys
    SESSION_VIDEO_TRACKING,      \* identity key -> registration record
    SESSION_STATS,               \* counters and the two sets
    VIDEO_EXTRACTION_DEBUG_LOG,  \* number of 'blocked' entries per duplicate reason
    LESSON_CONTEXT,              \* current lesson and lesson_validation_cache
    BROWSER_ISOLATION,           \* browser instance counters and isolation_stats
    driver,                      \* the page the browser is on
    pc,                          \* position inside extract_video_url
    method,                      \* number of the strategy being run (0..5)
    video_data,                  \* what the current strategy returned
    raised,                      \* the current strategy ended in its except branch
    lesson_title,                \* argument of the running extract_video_url
    result,                      \* return value of extract_video_url
    attempted,                   \* strategies run so far by this call, in order
    reg,                         \* the register_video_in_session call of the last step
    fin,                         \* the _final_video_validation call of the last step
    lesson_videos,               \* (lesson, video) pairs returned to the caller so far
    clock,                       \* datetime.now(), in top-level calls
    \* skool_modules: VideoExtractor.extract_video_url under @error_handler
    extraction_stats,            \* VideoExtractor.extraction_stats counters
    ve_pc,                       \* "idle", "chain", "returned" or "raised"
    ve_method,                   \* number of the strategy about to run (1..5)
    attempt,                     \* loop variable of the error_handler wrapper
    ve_exc,                      \* type of the exception raised inside the last strategy run
    ve_result,                   \* return value of the decorated call
    ve_calls,                    \* decorated calls made so far
    \* the URL functions and _final_video_validation called directly
    url_in,                      \* the URL under test
    platform_in,                 \* the platform tag under test
    cleaned_urls,                \* results of the successive clean_video_url calls
    video_ids,                   \* _extract_video_id_generic of url_in and of the cleaned URLs
    valid,                       \* <<is_valid_lesson_video(url_in)>> once it was called
    detected,                    \* <<detect_platform(url_in)>> once it was called
    direct,                      \* the last direct _final_video_validation call
    \* should_use_browser_isolation and _normalize_video_url called directly
    isolation_in,                \* lesson title, lesson index and lesson total under test
    isolation_out,               \* <<should_use_browser_isolation(...)>> once it was called
    normalize_in,                \* the URL handed to _normalize_video_url
    normalized,                  \* results of the successive _normalize_video_url calls
    \* a function decorated with error_handler, and the bulk run of main
    eh,                          \* the running call of the decorated function
    bulk                         \* position and statistics of process_lessons_with_direct_urls

extractorVars == <<SEEN_VIDEO_IDS_SESSION, SESSION_VIDEO_TRACKING, SESSION_STATS,
                   VIDEO_EXTRACTION_DEBUG_LOG, LESSON_CONTEXT, BROWSER_ISOLATION, driver, pc,
                   method, video_data, raised, lesson_title, result, attempted, reg, fin,
                   lesson_videos, clock>>

moduleVars == <<extraction_stats, ve_pc, ve_method, attempt, ve_exc, ve_result, ve_calls>>

urlVars == <<url_in, platform_in, cleaned_urls, video_ids, valid, detected, direct>>

runVars == <<isolation_in, isolation_out, normalize_in, normalized, eh, bulk>>

vars == <<extractorVars, moduleVars, urlVars, runVars>>

\* the session-level globals as one value, threaded through the calls of a step
Session == [seen |-> SEEN_VIDEO_IDS_SESSION,
            tracking |-> SESSION_VIDEO_TRACKING,
            stats |-> SESSION_STATS,
            log |-> VIDEO_EXTRACTION_DEBUG_LOG,
            context |-> LESSON_CONTEXT,
            reg |-> reg,
            fin |-> fin]

NoReg == [called |-> FALSE, video_url |-> NoneStr, lesson_title |-> NoneStr,
          extraction_method |-> NoneStr, platform |-> NoneStr, ret |-> FALSE]

NoFin == [called |-> FALSE, video_url |-> NoneStr, valid |-> FALSE, relevant |-> FALSE,
          ret |-> None]

EmptyStats == [videos_processed |-> 0, duplicates_blocked |-> 0, unique_videos_found |-> 0,
               lessons_processed |-> 0, extraction_methods_used |-> {},
               platforms_detected |-> {}]

EmptyLog == [early_session_duplicate |-> 0, session_duplicate |-> 0]

EmptyContext == [current_lesson_title |-> NoneStr, current_lesson_url |-> NoneStr,
                 lesson_validation_cache |-> [k \in {} |-> k]]

\* current_browser_instance is TRUE while an isolated browser exists; the two
\* time sums count one unit per browser created or destroyed
EmptyIsolation == [current_browser_instance |-> FALSE,
                   browser_instances_created |-> 0,
                   browser_instances_destroyed |-> 0,
                   isolation_mode |-> "shared",
                   isolation_stats |-> [lessons_with_isolated_browsers |-> 0,
                                        lessons_with_shared_browser |-> 0,
                                        browser_creation_time |-> 0,
                                        browser_destruction_time |-> 0]]

\* the arguments of the call, the time of the call, whether the identity key
\* of the candidate was unregistered when it was made, and what it returned
NoDirect == [called |-> FALSE, title |-> NoneStr, drv |-> NoDriver, at |-> 0, unseen |-> FALSE,
             ret |-> None]

(***************************************************************************)
(* Session tracking (skool_content_extractor.py)                           *)
(***************************************************************************)
\* Mutant: the new key is tracked and counted but never added to the seen set
register_without_seen_update(s, video_url, title, extraction_method, platform, now) ==
    LET call(r) == [called |-> TRUE, video_url |-> video_url, lesson_title |-> title,
                    extraction_method |-> extraction_method, platform |-> platform, ret |-> r]
        video_id == video_id_table[video_url]
        counted == [s.stats EXCEPT
                      !.videos_processed = @ + 1,
                      !.extraction_methods_used = @ \cup {extraction_method},
                      !.platforms_detected = IF Falsy(platform) THEN @ ELSE @ \cup {platform}]
    IN IF Falsy(video_url) THEN [ret |-> FALSE, s |-> [s EXCEPT !.reg = call(FALSE)]]
       ELSE IF video_id \in s.seen
       THEN [ret |-> FALSE,
             s |-> [s EXCEPT !.stats = [counted EXCEPT !.duplicates_blocked = @ + 1],
                             !.log = [@ EXCEPT !.session_duplicate = @ + 1],
                             !.reg = call(FALSE)]]
       ELSE [ret |-> TRUE,
             s |-> [s EXCEPT !.tracking = (video_id :> [video_url |-> video_url,
                                                        lesson_title |-> title,
                                                        extraction_method |-> extraction_method,
                                                        platform |-> platform,
                                                        timestamp |-> now,
                                                        order |-> Cardinality(DOMAIN s.tracking) + 1]) @@ @,
                             !.stats = [counted EXCEPT !.unique_videos_found = @ + 1],
                             !.reg = call(TRUE)]]

\* Mutant: a duplicate overwrites the registration entry (last registration wins)
register_last_title_wins(s, video_url, title, extraction_method, platform, now) ==
    LET call(r) == [called |-> TRUE, video_url |-> video_url, lesson_title |-> title,
                    extraction_method |-> extraction_method, platform |-> platform, ret |-> r]
        video_id == video_id_table[video_url]
        counted == [s.stats EXCEPT
                      !.videos_processed = @ + 1,
                      !.extraction_methods_used = @ \cup {extraction_method},
                      !.platforms_detected = IF Falsy(platform) THEN @ ELSE @ \cup {platform}]
        entry(n) == [video_url |-> video_url, lesson_title |-> title,
                     extraction_method |-> extraction_method, platform |-> platform,
                     timestamp |-> now, order |-> n]
    IN IF Falsy(video_url) THEN [ret |-> FALSE, s |-> [s EXCEPT !.reg = call(FALSE)]]
       ELSE IF video_id \in s.seen
       THEN [ret |-> FALSE,
             s |-> [s EXCEPT !.tracking = (video_id :> entry(s.tracking[video_id].order)) @@ @,
                             !.stats = [counted EXCEPT !.duplicates_blocked = @ + 1],
                             !.log = [@ EXCEPT !.session_duplicate = @ + 1],
                             !.reg = call(FALSE)]]
       ELSE [ret |-> TRUE,
             s |-> [s EXCEPT !.seen = @ \cup {video_id},
                             !.tracking = (video_id :> entry(Cardinality(DOMAIN s.tracking) + 1)) @@ @,
                             !.stats = [counted EXCEPT !.unique_videos_found = @ + 1],
                             !.reg = call(TRUE)]]

\* Mutant: videos_processed is counted only when the video is new
register_counting_only_new(s, video_url, title, extraction_method, platform, now) ==
    LET call(r) == [called |-> TRUE, video_url |-> video_url, lesson_title |-> title,
                    extraction_method |-> extraction_method, platform |-> platform, ret |-> r]
        video_id == video_id_table[video_url]
        counted == [s.stats EXCEPT
                      !.videos_processed = @ + 1,
                      !.extraction_methods_used = @ \cup {extraction_method},
                      !.platforms_detected = IF Falsy(platform) THEN @ ELSE @ \cup {platform}]
    IN IF Falsy(video_url) THEN [ret |-> FALSE, s |-> [s EXCEPT !.reg = call(FALSE)]]
       ELSE IF Falsy(video_id) THEN [ret |-> TRUE, s |-> [s EXCEPT !.reg = call(TRUE)]]
       ELSE IF video_id \in s.seen
       THEN [ret |-> FALSE,
             s |-> [s EXCEPT !.stats.duplicates_blocked = @ + 1,
                             !.log = [@ EXCEPT !.session_duplicate = @ + 1],
                             !.reg = call(FALSE)]]
       ELSE [ret |-> TRUE,
             s |-> [s EXCEPT !.seen = @ \cup {video_id},
                             !.tracking = (video_id :> [video_url |-> video_url,
                                                        lesson_title |-> title,
                                                        extraction_method |-> extraction_method,
                                                        platform |-> platform,
                                                        timestamp |-> now,
                                                        order |-> Cardinality(DOMAIN s.tracking) + 1]) @@ @,
                             !.stats = [counted EXCEPT !.unique_videos_found = @ + 1],
                             !.reg = call(TRUE)]]

\* returns [ret, s]: the return value and the session after the call
register_video_in_session(s, video_url, title, extraction_method, platform, now) ==
    LET call(r) == [called |-> TRUE, video_url |-> video_url, lesson_title |-> title,
                    extraction_method |-> extraction_method, platform |-> platform, ret |-> r]
        video_id == video_id_table[video_url]
        counted == [s.stats EXCEPT
                      !.videos_processed = @ + 1,
                      !.extraction_methods_used = @ \cup {extraction_method},
                      !.platforms_detected = IF Falsy(platform) THEN @ ELSE @ \cup {platform}]
    IN IF Falsy(video_url) THEN [ret |-> FALSE, s |-> [s EXCEPT !.reg = call(FALSE)]]
       ELSE IF Falsy(video_id) THEN [ret |-> TRUE, s |-> [s EXCEPT !.reg = call(TRUE)]]
       ELSE IF video_id \in s.seen
       THEN [ret |-> FALSE,
             s |-> [s EXCEPT !.stats = [counted EXCEPT !.duplicates_blocked = @ + 1],
                             !.log = [@ EXCEPT !.session_duplicate = @ + 1],
                             !.reg = call(FALSE)]]
       ELSE [ret |-> TRUE,
             s |-> [s EXCEPT !.seen = @ \cup {video_id},
                             !.tracking = (video_id :> [video_url |-> video_url,
                                                        lesson_title |-> title,
                                                        extraction_method |-> extraction_method,
                                                        platform |-> platform,
                                                        timestamp |-> now,
                                                        order |-> Cardinality(DOMAIN s.tracking) + 1]) @@ @,
                             !.stats = [counted EXCEPT !.unique_videos_found = @ + 1],
                             !.reg = call(TRUE)]]

check_session_duplicate_early(s, video_url) ==
    IF Falsy(video_url) THEN FALSE
    ELSE LET video_id == video_id_table[video_url]
         IN IF Falsy(video_id) THEN FALSE ELSE video_id \in s.seen

(***************************************************************************)
(* Lesson relevance                                                        *)
(***************************************************************************)
\* relevance scores are multiples of 0.1; they are kept in tenths
_check_page_content_relevance(drv, title, video_url) ==
    IF ~drv.alive THEN 0
    ELSE (IF drv.title_present THEN 4 ELSE 0)
         + (IF drv.video_context_present THEN 3 ELSE 0)
         \* page_text is lower-cased, video_url is not
         + (IF drv.url_in_text /\ lowercase_table[video_url] THEN 3 ELSE 0)

\* Mutant: 0.7 whether or not a lesson-specific container was found
_check_video_container_relevance_ignoring_containers(drv, title) ==
    IF ~drv.alive THEN 0 ELSE 7

_check_video_container_relevance(drv, title) ==
    IF ~drv.alive THEN 0
    ELSE IF drv.containers THEN 7 ELSE 3

\* returns [ret, s]
validate_video_belongs_to_lesson(s, video_url, title, drv) ==
    LET cache_key == video_url \o "|" \o title
        cache == s.context.lesson_validation_cache
        cached(v) == [s EXCEPT !.context.lesson_validation_cache = (cache_key :> v) @@ @]
        has_driver == drv # NoDriver
        \* Method 1: the URL contains an identifier of the lesson title
        r1 == IF identifier_table[video_url][title]
              THEN [valid |-> TRUE, reason |-> "url_contains_lesson_identifier", confidence |-> 8]
              ELSE [valid |-> FALSE, reason |-> "unknown", confidence |-> 0]
        \* Method 2: the browser is on the lesson's recorded URL
        checks2 == has_driver /\ ~Falsy(s.context.current_lesson_url)
        r2 == IF checks2 /\ drv.current_url = s.context.current_lesson_url
              THEN [valid |-> TRUE, reason |-> "correct_lesson_page", confidence |-> 9]
              ELSE r1
        \* Method 3: page content
        page_relevance == _check_page_content_relevance(drv, title, video_url)
        r3 == IF has_driver /\ r2.confidence < 8 /\ page_relevance > 7
              THEN [valid |-> TRUE, reason |-> "page_content_relevant", confidence |-> page_relevance]
              ELSE r2
        \* Method 4: lesson-specific containers
        container_relevance == _check_video_container_relevance(drv, title)
        r4 == IF r3.confidence < 6 /\ container_relevance > 6
              THEN [valid |-> TRUE, reason |-> "lesson_specific_container", confidence |-> container_relevance]
              ELSE r3
        error == [valid |-> FALSE, reason |-> "validation_error", confidence |-> 0]
    IN IF Falsy(video_url) \/ Falsy(title) THEN [ret |-> FALSE, s |-> s]
       ELSE IF cache_key \in DOMAIN cache THEN [ret |-> cache[cache_key].valid, s |-> s]
       \* driver.current_url raises when the browser is gone
       ELSE IF checks2 /\ ~drv.alive THEN [ret |-> FALSE, s |-> cached(error)]
       ELSE [ret |-> r4.valid, s |-> cached(r4)]

(***************************************************************************)
(* Final validation checkpoint                                             *)
(***************************************************************************)
\* Mutant: the result of register_video_in_session is ignored
final_validation_ignoring_registration(s, data, title, extraction_method, drv, now) ==
    LET t == IF Falsy(title) THEN "Unknown Lesson" ELSE title
        em == IF Falsy(extraction_method) THEN "Unknown Method" ELSE extraction_method
        platform == data.platform
        cleaned == clean_table[data.url][data.platform]
        video_url == IF ~Falsy(data.url) /\ ~Falsy(cleaned) /\ cleaned # data.url
                     THEN cleaned ELSE data.url
        accepted == [data EXCEPT !.url = video_url]
        seen(v, r, out) == [called |-> TRUE, video_url |-> video_url, valid |-> v,
                            relevant |-> r, ret |-> out]
        rel == validate_video_belongs_to_lesson(s, video_url, t, drv)
        registered == register_video_in_session(rel.s, video_url, t, em, platform, now)
    IN IF data = None THEN [ret |-> None, s |-> s]
       ELSE IF Falsy(video_url) THEN [ret |-> None, s |-> s]
       ELSE IF ~valid_table[video_url]
       THEN [ret |-> None, s |-> [s EXCEPT !.fin = seen(FALSE, FALSE, None)]]
       ELSE IF ~rel.ret
       THEN [ret |-> None, s |-> [rel.s EXCEPT !.fin = seen(TRUE, FALSE, None)]]
       ELSE [ret |-> accepted, s |-> [registered.s EXCEPT !.fin = seen(TRUE, TRUE, accepted)]]

\* Mutant: the candidate is registered before its relevance is checked
final_validation_registering_first(s, data, title, extraction_method, drv, now) ==
    LET t == IF Falsy(title) THEN "Unknown Lesson" ELSE title
        em == IF Falsy(extraction_method) THEN "Unknown Method" ELSE extraction_method
        platform == data.platform
        cleaned == clean_table[data.url][data.platform]
        video_url == IF ~Falsy(data.url) /\ ~Falsy(cleaned) /\ cleaned # data.url
                     THEN cleaned ELSE data.url
        accepted == [data EXCEPT !.url = video_url]
        seen(v, r, out) == [called |-> TRUE, video_url |-> video_url, valid |-> v,
                            relevant |-> r, ret |-> out]
        registered == register_video_in_session(s, video_url, t, em, platform, now)
        rel == validate_video_belongs_to_lesson(registered.s, video_url, t, drv)
    IN IF data = None THEN [ret |-> None, s |-> s]
       ELSE IF Falsy(video_url) THEN [ret |-> None, s |-> s]
       ELSE IF ~valid_table[video_url]
       THEN [ret |-> None, s |-> [s EXCEPT !.fin = seen(FALSE, FALSE, None)]]
       ELSE IF ~registered.ret
       THEN [ret |-> None, s |-> [registered.s EXCEPT !.fin = seen(TRUE, TRUE, None)]]
       ELSE IF ~rel.ret
       THEN [ret |-> None, s |-> [rel.s EXCEPT !.fin = seen(TRUE, FALSE, None)]]
       ELSE [ret |-> accepted, s |-> [rel.s EXCEPT !.fin = seen(TRUE, TRUE, accepted)]]

\* returns [ret, s]: ret is the accepted video_data or None
\* the record of one call: the URL checked, the outcome of the validity and
\* relevance checks, and what the call returned
FinalCall(video_url, v, r, out) ==
    [called |-> TRUE, video_url |-> video_url, valid |-> v, relevant |-> r, ret |-> out]

\* the URL the checks run on: clean_video_url's result when it changed the URL
FinalUrl(data) ==
    IF ~Falsy(data.url) /\ ~Falsy(clean_table[data.url][data.platform])
    THEN clean_table[data.url][data.platform]
    ELSE data.url

\* Mutant: the video is registered but the checkpoint hands back nothing
FinalRegistration_discarding_result(data, video_url, registered) ==
    [ret |-> None, s |-> [registered.s EXCEPT !.fin = FinalCall(video_url, TRUE, TRUE, None)]]

\* Check 3: registered is what register_video_in_session returned
FinalRegistration(data, video_url, registered) ==
    IF registered.ret
    THEN [ret |-> [data EXCEPT !.url = video_url],
          s |-> [registered.s EXCEPT
                   !.fin = FinalCall(video_url, TRUE, TRUE, [data EXCEPT !.url = video_url])]]
    ELSE [ret |-> None, s |-> [registered.s EXCEPT !.fin = FinalCall(video_url, TRUE, TRUE, None)]]

\* Check 2: rel is what validate_video_belongs_to_lesson returned
FinalRelevance(data, video_url, t, em, now, rel) ==
    IF ~rel.ret
    THEN [ret |-> None, s |-> [rel.s EXCEPT !.fin = FinalCall(video_url, TRUE, FALSE, None)]]
    ELSE FinalRegistration(data, video_url,
             register_video_in_session(rel.s, video_url, t, em, data.platform, now))

\* Check 1 and the hand-over to checks 2 and 3
FinalChecks(s, data, video_url, t, em, drv, now) ==
    IF Falsy(video_url) THEN [ret |-> None, s |-> s]
    ELSE IF ~valid_table[video_url]
    THEN [ret |-> None, s |-> [s EXCEPT !.fin = FinalCall(video_url, FALSE, FALSE, None)]]
    ELSE FinalRelevance(data, video_url, t, em, now,
             validate_video_belongs_to_lesson(s, video_url, t, drv))

_final_video_validation(s, data, title, extraction_method, drv, now) ==
    IF data = None THEN [ret |-> None, s |-> s]
    ELSE FinalChecks(s, data, FinalUrl(data),
                     IF Falsy(title) THEN "Unknown Lesson" ELSE title,
                     IF Falsy(extraction_method) THEN "Unknown Method" ELSE extraction_method,
                     drv, now)

(***************************************************************************)
(* extract_video_url: one strategy block                                   *)
(***************************************************************************)
\* Mutant: the network candidate, which no strategy validated, is returned as found
StrategyBlock_network_unchecked(s, m, data, title, drv, now) ==
    LET fall == [ret |-> None, s |-> s]
    IN IF data = None THEN fall
       ELSE IF m = 1 /\ ~Falsy(data.url) /\ StartsWith(data.url, "skool-video-id:") THEN fall
       ELSE IF check_session_duplicate_early(s, data.url)
       THEN [ret |-> None, s |-> [s EXCEPT !.log = [@ EXCEPT !.early_session_duplicate = @ + 1]]]
       ELSE IF m = 4 THEN [ret |-> data, s |-> s]
       ELSE IF valid_table[data.url]
       THEN _final_video_validation(s, data, title, MethodName(m), drv, now)
       ELSE fall

\* Mutant: an early duplicate is counted in duplicates_blocked as well
StrategyBlock_counting_early_duplicates(s, m, data, title, drv, now) ==
    LET fall == [ret |-> None, s |-> s]
    IN IF data = None THEN fall
       ELSE IF m = 1 /\ ~Falsy(data.url) /\ StartsWith(data.url, "skool-video-id:") THEN fall
       ELSE IF check_session_duplicate_early(s, data.url)
       THEN [ret |-> None,
             s |-> [s EXCEPT !.log = [@ EXCEPT !.early_session_duplicate = @ + 1],
                             !.stats = [@ EXCEPT !.duplicates_blocked = @ + 1]]]
       ELSE IF m = 4 \/ valid_table[data.url]
       THEN _final_video_validation(s, data, title, MethodName(m), drv, now)
       ELSE fall

\* the if/elif/else block that follows the call of strategy m; returns
\* [ret, s]: ret is the video_data the function returns from this block, None
\* when the block falls through to the next strategy
StrategyBlock(s, m, data, title, drv, now) ==
    LET fall == [ret |-> None, s |-> s]
    IN IF data = None THEN fall
       ELSE IF m = 1 /\ ~Falsy(data.url) /\ StartsWith(data.url, "skool-video-id:") THEN fall
       ELSE IF check_session_duplicate_early(s, data.url)
       THEN [ret |-> None, s |-> [s EXCEPT !.log = [@ EXCEPT !.early_session_duplicate = @ + 1]]]
       ELSE IF m = 4 \/ valid_table[data.url]
       THEN _final_video_validation(s, data, title, MethodName(m), drv, now)
       ELSE fall

(***************************************************************************)
(* Actions                                                                 *)
(***************************************************************************)
Commit(s) == /\ SEEN_VIDEO_IDS_SESSION' = s.seen
             /\ SESSION_VIDEO_TRACKING' = s.tracking
             /\ SESSION_STATS' = s.stats
             /\ VIDEO_EXTRACTION_DEBUG_LOG' = s.log
             /\ LESSON_CONTEXT' = s.context
             /\ reg' = s.reg
             /\ fin' = s.fin

\* the session at the start of a step: no call recorded yet
Fresh == [Session EXCEPT !.reg = NoReg, !.fin = NoFin]

\* the module globals after import, no call running
\* a decorated call that has not been made
NoCall == [pc |-> "idle", max_retries |-> NoneInt, retries |-> 0, invocations |-> 0,
           handled |-> 0, ret |-> NoneStr, last |-> NoneStr, exc |-> NoneStr, calls |-> 0]

\* main before it starts
NoRun == [pc |-> "start", total |-> 0, i |-> 0, processed |-> 0, skipped |-> 0, failed |-> 0,
          login_attempts |-> 0, login_failed |-> FALSE, use_isolation |-> FALSE,
          already |-> FALSE, extract_calls |-> 0, error |-> NoneStr,
          title |-> NoneStr]

NoIsolationIn == [title |-> NoneStr, index |-> 0, total |-> 0]

\* everything but BROWSER_ISOLATION and the inputs of the direct calls
InitSession ==
        /\ SEEN_VIDEO_IDS_SESSION = {}
        /\ SESSION_VIDEO_TRACKING = [k \in {} |-> k]
        /\ SESSION_STATS = EmptyStats
        /\ VIDEO_EXTRACTION_DEBUG_LOG = EmptyLog
        /\ LESSON_CONTEXT = EmptyContext
        /\ driver = NoDriver
        /\ pc = "idle"
        /\ method = 0
        /\ video_data = None
        /\ raised = FALSE
        /\ lesson_title = NoneStr
        /\ result = None
        /\ attempted = << >>
        /\ reg = NoReg
        /\ fin = NoFin
        /\ lesson_videos = << >>
        /\ clock = 0
        /\ extraction_stats = [total_attempts |-> 0, successful_extractions |-> 0,
                                failed_extractions |-> 0]
        /\ ve_pc = "idle"
        /\ ve_method = 1
        /\ attempt = 0
        /\ ve_exc = NoneStr
        /\ ve_result = NoneStr
        /\ ve_calls = 0
        /\ cleaned_urls = << >>
        /\ video_ids = << >>
        /\ valid = << >>
        /\ detected = << >>
        /\ direct = NoDirect
        /\ isolation_out = << >>
        /\ normalized = << >>
        /\ eh = NoCall
        /\ bulk = NoRun

InitState == /\ InitSession
             /\ BROWSER_ISOLATION = EmptyIsolation

\* no direct call of a pure function is under test
NoInputs == /\ isolation_in = NoIsolationIn
            /\ normalize_in = NoneStr

Init == /\ InitState
        /\ url_in = NoneStr
        /\ platform_in = NoneStr
        /\ NoInputs

\* Mutant: the reset as it was before browser isolation was tracked
reset_session_tracking_without_isolation ==
    /\ pc = "idle"
    /\ Commit([seen |-> {}, tracking |-> [k \in {} |-> k], stats |-> EmptyStats,
               log |-> EmptyLog, context |-> EmptyContext, reg |-> NoReg, fin |-> NoFin])
    /\ lesson_videos' = << >>
    /\ UNCHANGED <<driver, pc, method, video_data, raised, lesson_title, result, attempted,
                   clock, BROWSER_ISOLATION>>
    /\ UNCHANGED <<moduleVars, urlVars>>
    /\ UNCHANGED runVars

\* called at the start of a scraping run and by the tests; it reads no time,
\* so the clock stands still
reset_session_tracking ==
    /\ pc = "idle"
    /\ Commit([seen |-> {}, tracking |-> [k \in {} |-> k], stats |-> EmptyStats,
               log |-> EmptyLog, context |-> EmptyContext, reg |-> NoReg, fin |-> NoFin])
    /\ BROWSER_ISOLATION' = EmptyIsolation
    /\ lesson_videos' = << >>
    /\ UNCHANGED <<driver, pc, method, video_data, raised, lesson_title, result, attempted,
                   clock>>
    /\ UNCHANGED <<moduleVars, urlVars>>
    /\ UNCHANGED runVars

\* register_video_in_session called directly, as test_session_tracking.py does
RegisterCall ==
    /\ pc = "idle"
    /\ clock < MaxClock
    /\ clock' = clock + 1
    /\ \E u \in RegisterUrls, t \in Titles, em \in RegisterMethods :
         \E p \in {detect_platform(u), NoneStr} :
            Commit(register_video_in_session(Fresh, u, t, em, p, clock + 1).s)
    /\ UNCHANGED <<driver, pc, method, video_data, raised, lesson_title, result, attempted,
                   lesson_videos, BROWSER_ISOLATION>>
    /\ UNCHANGED <<moduleVars, urlVars>>
    /\ UNCHANGED runVars

\* create_isolated_browser_instance, after setup_driver() succeeded
create_isolated_browser_instance(b) ==
    [b EXCEPT !.browser_instances_created = @ + 1,
              !.current_browser_instance = TRUE,
              !.isolation_mode = "isolated",
              !.isolation_stats.browser_creation_time = @ + 1]

\* destroy_browser_instance, driver.quit() succeeding
destroy_browser_instance(b) ==
    [b EXCEPT !.browser_instances_destroyed = @ + 1,
              !.current_browser_instance = FALSE,
              !.isolation_stats.browser_destruction_time = @ + 1]

\* a lesson is begun as the body of the lesson loop is written, in an isolated
\* browser (process_lesson_with_isolated_browser) or in the shared one:
\* driver.get(lesson_url); set_lesson_context(...); extract_video_url(driver, title)
\* begins.  The name lookups of the loop body are in loop_body below.
BeginLesson ==
    /\ pc = "idle"
    /\ clock < MaxClock
    /\ clock' = clock + 1
    /\ \E isolated \in BOOLEAN :
         BROWSER_ISOLATION' =
            IF isolated THEN create_isolated_browser_instance(BROWSER_ISOLATION)
            ELSE [BROWSER_ISOLATION EXCEPT !.isolation_stats.lessons_with_shared_browser = @ + 1]
    /\ \E t \in Titles :
         /\ lesson_title' = t
         /\ driver' \in Drivers(t)
         /\ Commit([Fresh EXCEPT !.context.current_lesson_title = t,
                                 !.context.current_lesson_url = LessonUrl(t)])
    /\ pc' = "run"
    /\ method' = 0
    /\ video_data' = None
    /\ raised' = FALSE
    /\ result' = None
    /\ attempted' = << >>
    /\ UNCHANGED lesson_videos
    /\ UNCHANGED <<moduleVars, urlVars>>
    /\ UNCHANGED runVars

\* the call of strategy `method`: a candidate, nothing, or an exception that the
\* strategy's own `except Exception` turns into None
StrategyRun ==
    /\ pc = "run"
    /\ \/ /\ video_data' \in StrategyResults(method) \cup {None}
          /\ raised' = FALSE
       \/ /\ video_data' = None
          /\ raised' = TRUE
    /\ attempted' = Append(attempted, method)
    /\ pc' = "eval"
    /\ Commit(Fresh)
    /\ UNCHANGED <<driver, method, lesson_title, result, lesson_videos, clock,
                   BROWSER_ISOLATION>>
    /\ UNCHANGED <<moduleVars, urlVars>>
    /\ UNCHANGED runVars

\* Mutant: a candidate rejected by the final validation ends the call with None
CandidateEval_halting_on_rejection ==
    /\ pc = "eval"
    /\ LET b == StrategyBlock(Fresh, method, video_data, lesson_title, driver, clock)
       IN /\ Commit(b.s)
          /\ IF b.ret # None
             THEN /\ result' = b.ret
                  /\ pc' = "return"
                  /\ video_data' = video_data
                  /\ UNCHANGED method
             ELSE IF method < LastMethod /\ ~b.s.fin.called
             THEN /\ result' = None
                  /\ pc' = "run"
                  /\ video_data' = None
                  /\ method' = NextMethod(method)
             ELSE /\ result' = None
                  /\ pc' = "return"
                  /\ video_data' = None
                  /\ UNCHANGED method
    /\ raised' = FALSE
    /\ UNCHANGED <<driver, lesson_title, attempted, lesson_videos, clock, BROWSER_ISOLATION>>
    /\ UNCHANGED <<moduleVars, urlVars>>
    /\ UNCHANGED runVars

\* the block after the call: early duplicate check, validity gate, final validation
CandidateEval ==
    /\ pc = "eval"
    /\ \E b \in {StrategyBlock(Fresh, method, video_data, lesson_title, driver, clock)} :
          /\ Commit(b.s)
          /\ IF b.ret # None
             THEN /\ result' = b.ret
                  /\ pc' = "return"
                  /\ video_data' = video_data
                  /\ UNCHANGED method
             ELSE IF method < LastMethod
             THEN /\ result' = None
                  /\ pc' = "run"
                  /\ video_data' = None
                  /\ method' = NextMethod(method)
             ELSE /\ result' = None
                  /\ pc' = "return"
                  /\ video_data' = None
                  /\ UNCHANGED method
    /\ raised' = FALSE
    /\ UNCHANGED <<driver, lesson_title, attempted, lesson_videos, clock, BROWSER_ISOLATION>>
    /\ UNCHANGED <<moduleVars, urlVars>>
    /\ UNCHANGED runVars

\* extract_video_url returns to the lesson loop, which extracts the content and
\* counts the lesson when save_lesson_content succeeds
ExtractReturn ==
    /\ pc = "return"
    /\ pc' = "idle"
    /\ lesson_videos' = IF result # None
                        THEN Append(lesson_videos, [lesson |-> lesson_title, video |-> result])
                        ELSE lesson_videos
    /\ driver' = NoDriver
    /\ method' = 0
    /\ video_data' = None
    /\ raised' = FALSE
    /\ lesson_title' = NoneStr
    /\ result' = None
    /\ attempted' = << >>
    /\ \E saved \in BOOLEAN :
         /\ Commit([Fresh EXCEPT !.stats.lessons_processed = IF saved THEN @ + 1 ELSE @])
         /\ BROWSER_ISOLATION' =
              IF BROWSER_ISOLATION.current_browser_instance
              THEN destroy_browser_instance(
                     [BROWSER_ISOLATION EXCEPT
                        !.isolation_stats.lessons_with_isolated_browsers =
                            IF saved THEN @ + 1 ELSE @])
              ELSE BROWSER_ISOLATION
    /\ UNCHANGED clock
    /\ UNCHANGED <<moduleVars, urlVars>>
    /\ UNCHANGED runVars

Next == \/ reset_session_tracking
        \/ RegisterCall
        \/ BeginLesson
        \/ StrategyRun
        \/ CandidateEval
        \/ ExtractReturn

Spec == Init /\ [][Next]_vars

(***************************************************************************)
(* skool_modules/video_extractor.py and the error_handler decorator        *)
(***************************************************************************)
\* decorated calls of VideoExtractor.extract_video_url made in one run
MaxCalls == 2

\* get_config('MAX_RETRIES', 3): the key is not in the configuration
MAX_RETRIES == 3

\* get_config('CACHED_VIDEO_BLACKLIST'), a list of URLs; VIDEO_BLACKLIST is empty
cached_video_blacklist == {"https://youtu.be/65GvYDdzJWU"}

\* the platform_patterns, searched with re.IGNORECASE
platform_patterns(url) ==
    LET low == Lower(url)
    IN \/ SearchFixed(low, <<"youtube.com/watch?v=", "youtu.be/">>, IdChar, 11) # ""
       \/ SearchFixed(low, <<"youtube.com/embed/">>, IdChar, 11) # ""
       \/ SearchFixed(low, <<"youtube.com/v/">>, IdChar, 11) # ""
       \/ SearchPlus(low, <<"vimeo.com/", "vimeo.com/embed/">>, Digit) # ""
       \/ SearchPlus(low, <<"loom.com/share/", "loom.com/embed/">>, IdChar) # ""
       \/ SearchPlus(low, <<"wistia.com/medias/", "wistia.com/embed/">>, IdChar) # ""

_is_video_url(url) ==
    IF Falsy(url) THEN FALSE
    ELSE IF url \in cached_video_blacklist THEN FALSE
    ELSE IF platform_patterns(url) THEN TRUE
    ELSE \E ext \in {".mp4", ".avi", ".mov", ".wmv", ".flv", ".webm", ".mkv"} :
            EndsWith(Lower(UrlPath(url)), ext)

RECURSIVE re_sub(_, _, _, _, _)
\* re.sub(lit + '([cls]{n})', repl + r'\1', s, flags=re.IGNORECASE); n = 0 stands
\* for '([cls]+)'.  Text before, between and after the matches is kept.
re_sub(s, lit, cls, n, repl) ==
    LET low == Lower(s)
        len(i) == LET r == ClassRun(s, i + Len(lit), cls)
                  IN IF n = 0 THEN r ELSE IF r >= n THEN n ELSE 0
        P == {i \in 1..Len(s) : StartsAt(low, i, lit) /\ len(i) >= 1}
    IN IF P = {} THEN s
       ELSE LET i == Min(P)
                b == i + Len(lit)
                e == b + len(i) - 1
            IN SubSeq(s, 1, i - 1) \o repl \o SubSeq(s, b, e)
               \o re_sub(SubSeq(s, e + 1, Len(s)), lit, cls, n, repl)

_normalize_video_url(url) ==
    LET rules == <<
            [lit |-> "youtube.com/watch?v=", cls |-> IdChar, n |-> 11, repl |-> "https://www.youtube.com/watch?v="],
            [lit |-> "youtu.be/", cls |-> IdChar, n |-> 11, repl |-> "https://www.youtube.com/watch?v="],
            [lit |-> "youtube.com/embed/", cls |-> IdChar, n |-> 11, repl |-> "https://www.youtube.com/watch?v="],
            [lit |-> "youtube.com/v/", cls |-> IdChar, n |-> 11, repl |-> "https://www.youtube.com/watch?v="],
            [lit |-> "vimeo.com/", cls |-> Digit, n |-> 0, repl |-> "https://www.vimeo.com/"],
            [lit |-> "vimeo.com/embed/", cls |-> Digit, n |-> 0, repl |-> "https://www.vimeo.com/"],
            [lit |-> "loom.com/share/", cls |-> IdChar, n |-> 0, repl |-> "https://www.loom.com/share/"],
            [lit |-> "loom.com/embed/", cls |-> IdChar, n |-> 0, repl |-> "https://www.loom.com/share/"],
            [lit |-> "wistia.com/medias/", cls |-> IdChar, n |-> 0, repl |-> "https://www.wistia.com/medias/"],
            [lit |-> "wistia.com/embed/", cls |-> IdChar, n |-> 0, repl |-> "https://www.wistia.com/medias/"] >>
        sub(k) == re_sub(url, rules[k].lit, rules[k].cls, rules[k].n, rules[k].repl)
        hits == {k \in 1..Len(rules) : sub(k) # url}
    IN IF hits # {} THEN sub(Min(hits))
       ELSE IF ~StartsWith(url, "http://") /\ ~StartsWith(url, "https://") THEN "https://" \o url
       ELSE url

\* what _extract_from_json_data, _extract_from_iframes, _extract_from_video_player
\* and _extract_from_network_logs can find on the page: a string that passes
\* _is_video_url
VideoUrlsOnPage == {u \in PageUrls : _is_video_url(u)}

\* _extract_legacy_youtube: watch URL built from the first YouTube ID in page_source
_extract_legacy_youtube ==
    {"https://www.youtube.com/watch?v=" \o
        SearchFixed(u, <<"youtube.com/watch?v=", "youtu.be/", "youtube.com/embed/", "youtube.com/v/">>, IdChar, 11)
     : u \in {v \in PageUrls :
        SearchFixed(v, <<"youtube.com/watch?v=", "youtu.be/", "youtube.com/embed/", "youtube.com/v/">>, IdChar, 11) # ""}}

ModuleStrategyResults(k) == IF k = 5 THEN _extract_legacy_youtube ELSE VideoUrlsOnPage

normalize_table == [u \in VideoUrlsOnPage \cup _extract_legacy_youtube |-> _normalize_video_url(u)]

\* exception types a strategy body can raise (driver.find_element, json.loads, ...)
ExceptionTypes == {"NoSuchElementException", "JSONDecodeError", "Exception"}

\* the strategy's own except clause catches the exception and returns None
CaughtByStrategy(k, e) ==
    IF k = 1 THEN e \in {"NoSuchElementException", "JSONDecodeError", "KeyError"}
    ELSE TRUE

\* the decorated extract_video_url is called: wrapper starts its first attempt
ExtractorCall ==
    /\ ve_pc = "idle"
    /\ ve_calls < MaxCalls
    /\ ve_calls' = ve_calls + 1
    /\ attempt' = 0
    /\ extraction_stats' = [extraction_stats EXCEPT !.total_attempts = @ + 1]
    /\ ve_method' = 1
    /\ ve_pc' = "chain"
    /\ ve_exc' = NoneStr
    /\ ve_result' = NoneStr
    /\ UNCHANGED <<extractorVars, urlVars>>
    /\ UNCHANGED runVars

\* strategy ve_method runs; what the chain and the wrapper do with its outcome
ExtractorStrategy ==
    /\ ve_pc = "chain"
    /\ \E o \in [exc : {NoneStr}, url : ModuleStrategyResults(ve_method) \cup {NoneStr}]
              \cup [exc : ExceptionTypes, url : {NoneStr}] :
         /\ ve_exc' = o.exc
         /\ IF o.exc # NoneStr /\ ~CaughtByStrategy(ve_method, o.exc)
            THEN \* the exception leaves extract_video_url; handle_error recovers
                 \* (_retry_with_delay), so the wrapper loops or gives up
                 IF attempt < MAX_RETRIES
                 THEN /\ attempt' = attempt + 1
                      /\ extraction_stats' = [extraction_stats EXCEPT !.total_attempts = @ + 1]
                      /\ ve_method' = 1
                      /\ ve_pc' = "chain"
                      /\ ve_result' = NoneStr
                 ELSE /\ ve_pc' = "raised"
                      /\ ve_result' = NoneStr
                      /\ UNCHANGED <<attempt, extraction_stats, ve_method>>
            ELSE IF o.url # NoneStr
            THEN \* _validate_and_normalize_url
                 /\ extraction_stats' = [extraction_stats EXCEPT !.successful_extractions = @ + 1]
                 /\ ve_result' = normalize_table[o.url]
                 /\ ve_pc' = "returned"
                 /\ UNCHANGED <<attempt, ve_method>>
            ELSE IF ve_method < 5
            THEN /\ ve_method' = ve_method + 1
                 /\ ve_pc' = "chain"
                 /\ ve_result' = NoneStr
                 /\ UNCHANGED <<attempt, extraction_stats>>
            ELSE /\ extraction_stats' = [extraction_stats EXCEPT !.failed_extractions = @ + 1]
                 /\ ve_result' = NoneStr
                 /\ ve_pc' = "returned"
                 /\ UNCHANGED <<attempt, ve_method>>
    /\ UNCHANGED <<ve_calls, extractorVars, urlVars>>
    /\ UNCHANGED runVars

\* the caller has the return value or the SkoolScraperError
ExtractorReturn ==
    /\ ve_pc \in {"returned", "raised"}
    /\ ve_pc' = "idle"
    /\ ve_method' = 1
    /\ attempt' = 0
    /\ ve_exc' = NoneStr
    /\ ve_result' = NoneStr
    /\ UNCHANGED <<extraction_stats, ve_calls, extractorVars, urlVars>>
    /\ UNCHANGED runVars

NextVE == \/ ExtractorCall
          \/ ExtractorStrategy
          \/ ExtractorReturn

SpecVE == Init /\ [][NextVE]_vars

(***************************************************************************)
(* The URL functions and _final_video_validation called directly, as       *)
(* test_validation.py and test_session_tracking.py call them               *)
(***************************************************************************)
\* clean_video_url applications made to one input
MaxCleans == 2

\* drivers handed to a direct _final_video_validation call: none (the tests),
\* or a browser on some page.  Besides the pages of Drivers: a page left over
\* from another lesson whose text has no title and no keyword but which has a
\* content-classed element, and two whose text has the title and a keyword,
\* without and with the candidate URL
DirectDrivers(title) ==
    Drivers(title) \cup {NoDriver}
    \cup {[alive |-> TRUE, current_url |-> "https://www.skool.com/c/classroom",
           title_present |-> FALSE, video_context_present |-> FALSE, url_in_text |-> FALSE,
           containers |-> TRUE],
          [alive |-> TRUE, current_url |-> "https://www.skool.com/c/classroom",
           title_present |-> TRUE, video_context_present |-> TRUE, url_in_text |-> FALSE,
           containers |-> FALSE],
          [alive |-> TRUE, current_url |-> "https://www.skool.com/c/classroom",
           title_present |-> TRUE, video_context_present |-> TRUE, url_in_text |-> TRUE,
           containers |-> FALSE]}

InitUrl == /\ InitState
           /\ url_in \in UrlInputs
           /\ platform_in \in PlatformTags
           /\ NoInputs

\* url_in followed by the results of the clean_video_url calls made so far
UrlChain == <<url_in>> \o cleaned_urls

\* clean_video_url(url, platform), applied to the result of the previous call
CleanCall ==
    /\ Len(cleaned_urls) < MaxCleans
    /\ cleaned_urls' = Append(cleaned_urls, clean_table[UrlChain[Len(UrlChain)]][platform_in])
    /\ UNCHANGED <<url_in, platform_in, video_ids, valid, detected, direct>>
    /\ UNCHANGED <<extractorVars, moduleVars>>
    /\ UNCHANGED runVars

\* _extract_video_id_generic of the next URL of the chain
KeyCall ==
    /\ Len(video_ids) < Len(UrlChain)
    /\ video_ids' = Append(video_ids, video_id_table[UrlChain[Len(video_ids) + 1]])
    /\ UNCHANGED <<url_in, platform_in, cleaned_urls, valid, detected, direct>>
    /\ UNCHANGED <<extractorVars, moduleVars>>
    /\ UNCHANGED runVars

\* is_valid_lesson_video(url_in)
ValidCall ==
    /\ valid = << >>
    /\ valid' = <<valid_table[url_in]>>
    /\ UNCHANGED <<url_in, platform_in, cleaned_urls, video_ids, detected, direct>>
    /\ UNCHANGED <<extractorVars, moduleVars>>
    /\ UNCHANGED runVars

\* detect_platform(url_in)
DetectCall ==
    /\ detected = << >>
    /\ detected' = <<platform_table[url_in]>>
    /\ UNCHANGED <<url_in, platform_in, cleaned_urls, video_ids, valid, direct>>
    /\ UNCHANGED <<extractorVars, moduleVars>>
    /\ UNCHANGED runVars

\* _final_video_validation({'url': url_in, 'platform': platform_in}, title,
\* 'TEST_METHOD', driver) called outside extract_video_url
FinalValidationCall ==
    /\ pc = "idle"
    /\ clock < MaxClock
    /\ clock' = clock + 1
    /\ \E t \in DirectTitles :
         \E d \in DirectDrivers(t) :
            \E r \in {_final_video_validation(Fresh, [url |-> url_in, platform |-> platform_in],
                                               t, "TEST_METHOD", d, clock + 1)} :
               /\ Commit(r.s)
               /\ direct' = [called |-> TRUE, title |-> t, drv |-> d, at |-> clock + 1,
                             unseen |-> ~check_session_duplicate_early(Fresh, FinalUrl([url |-> url_in, platform |-> platform_in])),
                             ret |-> r.ret]
    /\ UNCHANGED <<url_in, platform_in, cleaned_urls, video_ids, valid, detected>>
    /\ UNCHANGED <<driver, pc, method, video_data, raised, lesson_title, result, attempted,
                   lesson_videos, BROWSER_ISOLATION>>
    /\ UNCHANGED moduleVars
    /\ UNCHANGED runVars

\* the URL functions applied to one input
NextUrl == \/ CleanCall
           \/ KeyCall
           \/ ValidCall
           \/ DetectCall

SpecUrl == InitUrl /\ [][NextUrl]_vars

\* a candidate as the strategies build it: tagged with detect_platform(url), or
\* 'unknown' where the strategy does not tag it
InitDirect == /\ InitState
              /\ url_in \in UrlInputs
              /\ platform_in \in {platform_table[url_in], "unknown"}
              /\ NoInputs

\* set_lesson_context(lesson_title, lesson_url) called directly, as
\* test_lesson_validation.py does
SetLessonContext ==
    /\ pc = "idle"
    /\ clock < MaxClock
    /\ clock' = clock + 1
    /\ \E t \in DirectTitles :
         Commit([Fresh EXCEPT !.context.current_lesson_title = t,
                              !.context.current_lesson_url = LessonUrl(t)])
    /\ UNCHANGED <<driver, pc, method, video_data, raised, lesson_title, result, attempted,
                   lesson_videos, BROWSER_ISOLATION>>
    /\ UNCHANGED <<moduleVars, urlVars>>
    /\ UNCHANGED runVars

\* the validity gate and the final validation called directly on one candidate,
\* in a session that other registrations and resets change
NextDirect == \/ ValidCall
              \/ SetLessonContext
              \/ FinalValidationCall
              \/ RegisterCall
              \/ reset_session_tracking

SpecDirect == InitDirect /\ [][NextDirect]_vars

(***************************************************************************)
(* Properties                                                              *)
(***************************************************************************)
(***************************************************************************)
(* should_use_browser_isolation, called directly as test_browser_isolation *)
(* calls it                                                                *)
(***************************************************************************)
\* largest lesson index handed to should_use_browser_isolation
MaxIndex == 12

\* lesson titles: a keyword as the whole title, at the start, at the end and
\* in the middle, a keyword inside a longer word, a keyword followed by
\* punctuation, and titles without keyword
IsolationTitles == {"Introduction", "Welcome to the Course", "Python Basics",
                    "Lesson 1: Getting Started", "The Fundamentals of Design",
                    "Introductions and Overviews", "Introduction: Setup",
                    "Advanced Data Structures", "Lesson 7"}

\* values of lessons_with_shared_browser when the function is called
SharedCounts == {0, 9, 10, 11}

problematic_lessons == <<"introduction", "welcome", "overview", "getting started",
                         "basics", "fundamentals">>

\* Mutant: no isolation after many lessons in the shared browser
should_use_browser_isolation_without_threshold(b, title, lesson_index, total_lessons) ==
    \/ lesson_index <= 3
    \/ lesson_index % 5 = 0
    \/ \E k \in 1..Len(problematic_lessons) :
          \E problematic \in {problematic_lessons[k]} :
             \E lesson_lower \in {Lower(title)} :
                \/ problematic = lesson_lower
                \/ StartsWith(lesson_lower, problematic \o " ")
                \/ EndsWith(lesson_lower, " " \o problematic)
                \/ Contains(lesson_lower, " " \o problematic \o " ")

\* Mutant: a keyword counts wherever it occurs in the title
should_use_browser_isolation_on_substring(b, title, lesson_index, total_lessons) ==
    \/ lesson_index <= 3
    \/ lesson_index % 5 = 0
    \/ \E k \in 1..Len(problematic_lessons) :
          Contains(Lower(title), problematic_lessons[k])
    \/ b.isolation_stats.lessons_with_shared_browser >= 10

\* b is BROWSER_ISOLATION
should_use_browser_isolation(b, title, lesson_index, total_lessons) ==
    IF lesson_index <= 3 THEN TRUE
    ELSE IF lesson_index % 5 = 0 THEN TRUE
    ELSE IF \E lesson_lower \in {Lower(title)} :
               \E k \in 1..Len(problematic_lessons) :
                  \E problematic \in {problematic_lessons[k]} :
                     /\ Contains(lesson_lower, problematic)
                     /\ \/ problematic = lesson_lower
                        \/ StartsWith(lesson_lower, problematic \o " ")
                        \/ EndsWith(lesson_lower, " " \o problematic)
                        \/ Contains(lesson_lower, " " \o problematic \o " ")
    THEN TRUE
    ELSE b.isolation_stats.lessons_with_shared_browser >= 10

InitIsolation ==
    /\ InitSession
    /\ BROWSER_ISOLATION \in
          {[EmptyIsolation EXCEPT !.isolation_stats.lessons_with_shared_browser = n] :
              n \in SharedCounts}
    /\ url_in = NoneStr
    /\ platform_in = NoneStr
    /\ normalize_in = NoneStr
    /\ isolation_in \in [title : IsolationTitles, index : 1..MaxIndex, total : {MaxIndex}]

\* should_use_browser_isolation(title, index, total)
IsolationCall ==
    /\ isolation_in # NoIsolationIn
    /\ isolation_out = << >>
    /\ isolation_out' = <<should_use_browser_isolation(BROWSER_ISOLATION, isolation_in.title,
                                                       isolation_in.index, isolation_in.total)>>
    /\ UNCHANGED <<isolation_in, normalize_in, normalized, eh, bulk>>
    /\ UNCHANGED <<extractorVars, moduleVars, urlVars>>

NextIsolation == IsolationCall

SpecIsolation == InitIsolation /\ [][NextIsolation]_vars

(***************************************************************************)
(* The error_handler decorator (skool_modules/error_handler.py)            *)
(***************************************************************************)
\* largest max_retries given to the decorator
MaxRetriesArg == 2

\* number of calls of a decorated function
MaxDecoratedCalls == 2

\* what the wrapped function returns when it succeeds
ReturnValues == {"Success", "Other"}

\* what the wrapped function raises: a SkoolScraperError subclass, or any other
\* exception, which the wrapper replaces by SkoolScraperError(str(e), ...)
RaisedExceptions == {"NetworkError", "ValueError"}

converted(e) == IF e = "ValueError" THEN "SkoolScraperError" ELSE e

\* retries = max_retries or get_config('MAX_RETRIES', 3): None and 0 are both falsy
wrapper_retries(max_retries) ==
    IF max_retries = NoneInt \/ max_retries = 0 THEN MAX_RETRIES ELSE max_retries

\* a function decorated with @error_handler(max_retries=n) is called
DecoratedCall ==
    /\ eh.pc \in {"idle", "returned", "raised"}
    /\ eh.calls < MaxDecoratedCalls
    /\ \E n \in {NoneInt} \cup 0..MaxRetriesArg :
          eh' = [NoCall EXCEPT !.pc = "attempt",
                               !.max_retries = n,
                               !.retries = wrapper_retries(n),
                               !.calls = eh.calls + 1]
    /\ UNCHANGED <<isolation_in, isolation_out, normalize_in, normalized, bulk>>
    /\ UNCHANGED <<extractorVars, moduleVars, urlVars>>

\* one pass of `for attempt in range(retries + 1)`: func returns, or raises and
\* handle_error says whether the error was recovered; after the last pass the
\* wrapper raises "failed after retries + 1 attempts"
DecoratedAttempt ==
    /\ eh.pc = "attempt"
    /\ eh.invocations < eh.retries + 1
    /\ \/ \E v \in ReturnValues :
             eh' = [eh EXCEPT !.invocations = @ + 1, !.pc = "returned",
                              !.last = v, !.ret = v]
       \/ \E e \in RaisedExceptions, recovered \in BOOLEAN :
             eh' = IF ~recovered
                   THEN [eh EXCEPT !.invocations = @ + 1, !.pc = "raised",
                                   !.exc = converted(e)]
                   ELSE IF eh.invocations + 1 < eh.retries + 1
                   THEN [eh EXCEPT !.invocations = @ + 1, !.handled = @ + 1]
                   ELSE [eh EXCEPT !.invocations = @ + 1, !.handled = @ + 1,
                                   !.pc = "raised", !.exc = "failed after attempts"]
    /\ UNCHANGED <<isolation_in, isolation_out, normalize_in, normalized, bulk>>
    /\ UNCHANGED <<extractorVars, moduleVars, urlVars>>

NextDecorated == \/ DecoratedCall
                 \/ DecoratedAttempt

SpecDecorated == Init /\ [][NextDecorated]_vars

(***************************************************************************)
(* VideoExtractor._normalize_video_url, called directly as                 *)
(* test_url_normalization calls it                                         *)
(***************************************************************************)
\* the URL forms of one video per platform, without scheme and www., each
\* with the platform's canonical URL of that video
NormalizeForms ==
    {[path |-> "youtube.com/watch?v=dQw4w9WgXcQ", canonical |-> "https://www.youtube.com/watch?v=dQw4w9WgXcQ"],
     [path |-> "youtu.be/dQw4w9WgXcQ", canonical |-> "https://www.youtube.com/watch?v=dQw4w9WgXcQ"],
     [path |-> "youtube.com/embed/dQw4w9WgXcQ", canonical |-> "https://www.youtube.com/watch?v=dQw4w9WgXcQ"],
     [path |-> "youtube.com/v/dQw4w9WgXcQ", canonical |-> "https://www.youtube.com/watch?v=dQw4w9WgXcQ"],
     [path |-> "vimeo.com/123456789", canonical |-> "https://www.vimeo.com/123456789"],
     [path |-> "vimeo.com/embed/123456789", canonical |-> "https://www.vimeo.com/123456789"],
     [path |-> "loom.com/share/abc123", canonical |-> "https://www.loom.com/share/abc123"],
     [path |-> "loom.com/embed/abc123", canonical |-> "https://www.loom.com/share/abc123"],
     [path |-> "wistia.com/medias/xyz789", canonical |-> "https://www.wistia.com/medias/xyz789"],
     [path |-> "wistia.com/embed/xyz789", canonical |-> "https://www.wistia.com/medias/xyz789"]}

Schemes == {"", "http://", "https://"}

WwwPrefixes == {"", "www."}

NormalizeInputs == {s \o w \o f.path : s \in Schemes, w \in WwwPrefixes, f \in NormalizeForms}

InitNormalize ==
    /\ InitState
    /\ url_in = NoneStr
    /\ platform_in = NoneStr
    /\ isolation_in = NoIsolationIn
    /\ normalize_in \in NormalizeInputs

\* extractor._normalize_video_url(input_url)
NormalizeCall ==
    /\ normalize_in # NoneStr
    /\ normalized = << >>
    /\ normalized' = <<_normalize_video_url(normalize_in)>>
    /\ UNCHANGED <<isolation_in, isolation_out, normalize_in, eh, bulk>>
    /\ UNCHANGED <<extractorVars, moduleVars, urlVars>>

NextNormalize == NormalizeCall

SpecNormalize == InitNormalize /\ [][NextNormalize]_vars

(***************************************************************************)
(* A bulk run: main and process_lessons_with_direct_urls                   *)
(***************************************************************************)
\* largest number of lessons extract_all_lesson_data finds in the collection
MaxLessons == 18

\* titles of the collection's lessons: with and without a problematic keyword
BulkTitles == {"Welcome to the Course", "Advanced Data Structures"}

\* the names bound in process_lessons_with_direct_urls when the body of the
\* loop runs: its parameters, and the locals assigned before the try statement
\* and at the top of the loop body
LoopNames == {"driver", "lesson_data", "output_dirs", "collection_url",
              "community_display_name", "download_videos",
              "processed_count", "failed_lessons", "skipped_count", "hierarchy",
              "already_extracted", "parsed_url", "base_url", "stats",
              "i", "lesson_title", "md_value", "clean_title", "use_isolation", "lesson_url"}

\* the module-level names of skool_content_extractor.py: imports, the session
\* globals and the functions (the ones the loop body reads)
ModuleNames == {"BROWSER_ISOLATION", "SESSION_STATS", "should_use_browser_isolation",
                "process_lesson_with_isolated_browser", "clear_browser_storage_bulk",
                "set_lesson_context", "generate_lesson_content_signature",
                "extract_video_url", "extract_lesson_content", "save_lesson_content",
                "time", "os", "random"}

\* Python's name lookup in the function: local, then module global
Resolves(name) == name \in LoopNames \cup ModuleNames

\* the argument names of the call at lines 3920-3923
IsolatedArgs == <<"lesson_title", "lesson_url", "lesson_id", "email", "password",
                  "download_videos", "output_dirs", "community_display_name", "community_slug">>

\* the argument names of set_lesson_context(...) at line 3983
ContextArgs == <<"lesson_title", "lesson_url", "lesson_id">>

\* Mutant: the except clause does not count the lesson
except_Exception_uncounted(st, e) == [st EXCEPT !.error = e]

\* except Exception as e: stats['failed'] += 1; failed_lessons.append(...); continue
except_Exception(st, e) == [st EXCEPT !.failed = @ + 1, !.error = e]

\* Mutant: the run goes on after a failed login
after_login_going_on(st, ok) ==
    [st EXCEPT !.login_attempts = @ + 1, !.login_failed = ~ok, !.pc = "collect"]

\* main: if not login_to_skool(driver, args.email, args.password): return
after_login(st, ok) ==
    [st EXCEPT !.login_attempts = @ + 1, !.login_failed = ~ok,
               !.pc = IF ok THEN "collect" ELSE "aborted"]

\* one pass of the loop of process_lessons_with_direct_urls for lesson number
\* index; st is the run's counters, b is BROWSER_ISOLATION, env is what the
\* browser and the disk do when they are reached (login, content saved)
loop_body(st, b, title, index, already, env) ==
    LET at == [st EXCEPT !.i = index, !.title = title, !.already = already,
                         !.use_isolation = FALSE, !.extract_calls = 0, !.error = NoneStr]
    IN IF already
       THEN [st |-> [at EXCEPT !.skipped = @ + 1], b |-> b]
       ELSE IF should_use_browser_isolation(b, title, index, st.total)
       THEN \* the arguments of process_lesson_with_isolated_browser are evaluated
            IF \E k \in 1..Len(IsolatedArgs) : ~Resolves(IsolatedArgs[k])
            THEN [st |-> except_Exception([at EXCEPT !.use_isolation = TRUE], "NameError"),
                  b |-> b]
            ELSE \* process_lesson_with_isolated_browser: browser, login, extract, save
                 LET ran == [at EXCEPT !.use_isolation = TRUE, !.login_attempts = @ + 1,
                                       !.login_failed = ~env.login,
                                       !.extract_calls = IF env.login THEN 1 ELSE 0]
                 IN [st |-> IF env.login /\ env.saved
                            THEN [ran EXCEPT !.processed = @ + 1]
                            ELSE [ran EXCEPT !.failed = @ + 1],
                     b |-> destroy_browser_instance(create_isolated_browser_instance(b))]
       ELSE \* shared browser: the counter, clear_browser_storage_bulk, driver.get,
            \* then the arguments of set_lesson_context are evaluated
            LET shared == [b EXCEPT !.isolation_stats.lessons_with_shared_browser = @ + 1]
            IN IF \E k \in 1..Len(ContextArgs) : ~Resolves(ContextArgs[k])
               THEN [st |-> except_Exception(at, "NameError"), b |-> shared]
               ELSE [st |-> IF env.saved
                            THEN [at EXCEPT !.extract_calls = 1, !.processed = @ + 1]
                            ELSE [at EXCEPT !.extract_calls = 1, !.failed = @ + 1],
                     b |-> shared]

\* main on a collection URL: reset_session_tracking(), setup_driver(),
\* login_to_skool(...)
BulkStart ==
    /\ bulk.pc = "start"
    /\ pc = "idle"
    /\ Commit([seen |-> {}, tracking |-> [k \in {} |-> k], stats |-> EmptyStats,
               log |-> EmptyLog, context |-> EmptyContext, reg |-> NoReg, fin |-> NoFin])
    /\ BROWSER_ISOLATION' = EmptyIsolation
    /\ lesson_videos' = << >>
    /\ \E ok \in BOOLEAN : bulk' = after_login(bulk, ok)
    /\ UNCHANGED <<driver, pc, method, video_data, raised, lesson_title, result, attempted,
                   clock>>
    /\ UNCHANGED <<isolation_in, isolation_out, normalize_in, normalized, eh>>
    /\ UNCHANGED <<moduleVars, urlVars>>

\* main: driver.get(args.url); lesson_data = extract_all_lesson_data(driver);
\* no lesson: return; otherwise process_lessons_with_direct_urls begins
BulkCollect ==
    /\ bulk.pc = "collect"
    /\ \E n \in 0..MaxLessons :
          bulk' = [bulk EXCEPT !.total = n, !.pc = IF n = 0 THEN "empty" ELSE "loop"]
    /\ UNCHANGED <<isolation_in, isolation_out, normalize_in, normalized, eh>>
    /\ UNCHANGED <<extractorVars, moduleVars, urlVars>>

\* for i, (lesson_title, md_value) in enumerate(lesson_data, 1): one lesson
BulkLesson ==
    /\ bulk.pc = "loop"
    /\ bulk.i < bulk.total
    /\ \E title \in BulkTitles, already \in BOOLEAN, login \in BOOLEAN, saved \in BOOLEAN :
          \E r \in {loop_body(bulk, BROWSER_ISOLATION, title, bulk.i + 1, already,
                              [login |-> login, saved |-> saved])} :
             /\ bulk' = r.st
             /\ BROWSER_ISOLATION' = r.b
    /\ UNCHANGED <<SEEN_VIDEO_IDS_SESSION, SESSION_VIDEO_TRACKING, SESSION_STATS,
                   VIDEO_EXTRACTION_DEBUG_LOG, LESSON_CONTEXT, driver, pc, method,
                   video_data, raised, lesson_title, result, attempted, reg, fin,
                   lesson_videos, clock>>
    /\ UNCHANGED <<isolation_in, isolation_out, normalize_in, normalized, eh>>
    /\ UNCHANGED <<moduleVars, urlVars>>

\* the loop is exhausted: return stats['processed'], failed_lessons, stats['skipped']
BulkReturn ==
    /\ bulk.pc = "loop"
    /\ bulk.i = bulk.total
    /\ bulk' = [bulk EXCEPT !.pc = "done"]
    /\ UNCHANGED <<isolation_in, isolation_out, normalize_in, normalized, eh>>
    /\ UNCHANGED <<extractorVars, moduleVars, urlVars>>

NextBulk == \/ BulkStart
            \/ BulkCollect
            \/ BulkLesson
            \/ BulkReturn

SpecBulk == Init /\ [][NextBulk]_vars

\* C1: between two resets at most one register_video_in_session call per
\* identity key returns True: a call returns True only for a key that was not
\* in the seen set and is in it afterwards, and only reset_session_tracking
\* ever removes a key from the seen set.
C1_OneRegistrationPerKey ==
    [][/\ (reg'.called /\ reg'.ret) =>
            /\ video_id_table[reg'.video_url] \notin SEEN_VIDEO_IDS_SESSION
            /\ video_id_table[reg'.video_url] \in SEEN_VIDEO_IDS_SESSION'
       /\ (SEEN_VIDEO_IDS_SESSION \subseteq SEEN_VIDEO_IDS_SESSION'
            \/ SEEN_VIDEO_IDS_SESSION' = {})]_vars

\* C1 witness: a second call names a registered key by another URL, under
\* another title, and was refused
C1_Witness ==
    /\ pc = "idle"
    /\ reg.called /\ ~reg.ret
    /\ LET first == SESSION_VIDEO_TRACKING[video_id_table[reg.video_url]]
       IN first.video_url # reg.video_url /\ first.lesson_title # reg.lesson_title

\* C2: within a session no two extract_video_url calls return a video with the
\* same identity key.
C2_NoVideoReturnedTwice ==
    \A i, j \in 1..Len(lesson_videos) :
        i # j => video_id_table[lesson_videos[i].video.url]
                 # video_id_table[lesson_videos[j].video.url]

\* C2 witness: the first lesson was given the video; the next lesson surfaced the
\* same video (discarded as a duplicate) and its call ends with None
C2_Witness ==
    /\ pc = "return" /\ result = None
    /\ Len(lesson_videos) = 1
    /\ lesson_videos[1].lesson # lesson_title
    /\ VIDEO_EXTRACTION_DEBUG_LOG.early_session_duplicate >= 1
    /\ SESSION_STATS.unique_videos_found = 1

\* C3: every non-null return value of extract_video_url is the value returned by
\* _final_video_validation in that call: canonicalized, accepted by
\* is_valid_lesson_video and validate_video_belongs_to_lesson, and registered
\* with register_video_in_session returning True.
C3_OnlyThroughFinalValidation ==
    (pc = "return" /\ result # None) =>
        /\ fin.called /\ fin.valid /\ fin.relevant
        /\ fin.ret = result
        /\ result.url = clean_video_url(video_data.url, video_data.platform)
        /\ is_valid_lesson_video(result.url)
        /\ reg.called /\ reg.ret /\ reg.video_url = result.url
        /\ _extract_video_id_generic(result.url) \in SEEN_VIDEO_IDS_SESSION

\* C3 witness: the JSON strategy's candidate is returned, rewritten by the
\* canonicalization
C3_Witness ==
    /\ pc = "return" /\ result # None
    /\ MethodName(method) = "METHOD_1_JSON"
    /\ result.url # video_data.url

\* C4: a candidate that _final_video_validation rejects at the validity gate or
\* at the relevance check never reaches register_video_in_session: the seen
\* set, the registration map and the session counters are unchanged.
C4_RejectionLeavesRegistryUntouched ==
    [][(fin'.called /\ (~fin'.valid \/ ~fin'.relevant)) =>
            /\ ~reg'.called
            /\ UNCHANGED <<SEEN_VIDEO_IDS_SESSION, SESSION_VIDEO_TRACKING, SESSION_STATS>>]_vars

\* C4 witness: a valid candidate was rejected as not belonging to the lesson
\* while the session already holds a registration
C4_Witness ==
    /\ fin.called /\ fin.valid /\ ~fin.relevant
    /\ SESSION_STATS.videos_processed >= 1

\* C5: registering a key that is already registered under a different lesson
\* title returns False, adds exactly 1 to duplicates_blocked and leaves
\* unique_videos_found, the seen set and the existing entry unchanged.
C5_DuplicateRegistrationFrame ==
    [][(/\ reg'.called
        /\ ~Falsy(reg'.video_url)
        /\ video_id_table[reg'.video_url] \in SEEN_VIDEO_IDS_SESSION
        /\ SESSION_VIDEO_TRACKING[video_id_table[reg'.video_url]].lesson_title # reg'.lesson_title)
       => /\ ~reg'.ret
          /\ SESSION_STATS'.duplicates_blocked = SESSION_STATS.duplicates_blocked + 1
          /\ SESSION_STATS'.unique_videos_found = SESSION_STATS.unique_videos_found
          /\ SEEN_VIDEO_IDS_SESSION' = SEEN_VIDEO_IDS_SESSION
          /\ SESSION_VIDEO_TRACKING' = SESSION_VIDEO_TRACKING]_vars

\* C5 witness: the duplicate call under another title has been made and counted
C5_Witness ==
    /\ reg.called /\ ~reg.ret
    /\ SESSION_VIDEO_TRACKING[video_id_table[reg.video_url]].lesson_title # reg.lesson_title
    /\ SESSION_STATS.duplicates_blocked = 1
    /\ SESSION_STATS.unique_videos_found = 1

\* C6 as stated: duplicates_blocked equals the number of candidates discarded as
\* session duplicates, whether by the early check or at registration.
C6_EveryDuplicateDiscardCounted ==
    SESSION_STATS.duplicates_blocked =
        VIDEO_EXTRACTION_DEBUG_LOG.early_session_duplicate
        + VIDEO_EXTRACTION_DEBUG_LOG.session_duplicate

\* C6 amended: duplicates_blocked counts the candidates that
\* register_video_in_session refused; a candidate discarded by
\* check_session_duplicate_early is not counted.
C6_OnlyRegistrationDuplicatesCounted ==
    SESSION_STATS.duplicates_blocked = VIDEO_EXTRACTION_DEBUG_LOG.session_duplicate

\* C6 witness: one extract_video_url call discarded a candidate at the early
\* check and another one at registration
C6_Witness ==
    /\ pc # "idle"
    /\ VIDEO_EXTRACTION_DEBUG_LOG.early_session_duplicate >= 1
    /\ fin.called /\ reg.called /\ ~reg.ret
    /\ SESSION_STATS.duplicates_blocked = 1

\* C7: a strategy without a candidate, or with a rejected candidate, never
\* halts the chain: after its block either the candidate is returned, or the
\* next strategy runs, or all strategies have been attempted and None is returned.
C7_RejectionNeverHaltsChain ==
    [][pc = "eval" =>
          \/ pc' = "return" /\ result' # None
          \/ pc' = "run" /\ \A i \in 1..Len(attempted) : attempted[i] # method'
          \/ pc' = "return" /\ result' = None /\ attempted = <<0, 1, 2, 3, 4, 5>>]_vars

\* C7 witness: the iframe strategy's candidate failed the final validation and
\* the network strategy is about to run
C7_Witness ==
    /\ pc = "run"
    /\ MethodName(method) = "METHOD_4_NETWORK"
    /\ fin.called /\ fin.ret = None

C9_ExceptionIsNoCandidate ==
    [][(ve_pc = "chain" /\ ve_exc' # NoneStr) =>
            /\ ve_pc' # "raised"
            /\ attempt' = attempt
            /\ extraction_stats'.total_attempts = extraction_stats.total_attempts
            /\ IF ve_method < 5 THEN ve_pc' = "chain" /\ ve_method' = ve_method + 1
                                ELSE ve_pc' = "returned"]_vars

\* C10: once a YouTube video has been accepted, a later candidate referring to
\* the same video ID in another supported URL form (watch, embed, youtu.be,
\* youtube-nocookie embed) is rejected: no two accepted videos share a YouTube ID.
C10_SameYouTubeVideoNeverAcceptedTwice ==
    LET youtube_id(u) == SearchFixed(u, <<"youtube.com/watch?v=", "youtube.com/embed/",
                                          "youtu.be/", "youtube-nocookie.com/embed/">>, IdChar, 11)
    IN \A i, j \in 1..Len(lesson_videos) :
          (/\ lesson_videos[i].lesson # lesson_videos[j].lesson
           /\ youtube_id(lesson_videos[i].video.url) # "")
              => youtube_id(lesson_videos[i].video.url) # youtube_id(lesson_videos[j].video.url)

\* C11: the short form youtu.be/<id>, the embed form
\* youtube.com/embed/<id>?x=1 and the watch form watch?v=<id>&t=5 of one
\* YouTube video are all cleaned, under the platform tag youtube, to
\* https://www.youtube.com/watch?v=<id>, and all three have the identity key
\* yt:<id>.
C11_YouTubeFormsOneCanonicalOneKey ==
    url_in \in {"https://youtu.be/dQw4w9WgXcQ",
                "https://www.youtube.com/embed/dQw4w9WgXcQ?x=1",
                "https://www.youtube.com/watch?v=dQw4w9WgXcQ&t=5"}
    => /\ (platform_in = "youtube" /\ Len(cleaned_urls) >= 1)
            => cleaned_urls[1] = "https://www.youtube.com/watch?v=dQw4w9WgXcQ"
       /\ Len(video_ids) >= 1 => video_ids[1] = "yt:dQw4w9WgXcQ"

C11_Witness ==
    /\ url_in = "https://www.youtube.com/embed/dQw4w9WgXcQ?x=1"
    /\ platform_in = "youtube"
    /\ Len(cleaned_urls) >= 1
    /\ Len(video_ids) >= 1
    /\ cleaned_urls[1] = "https://www.youtube.com/watch?v=dQw4w9WgXcQ"
    /\ video_ids[1] = "yt:dQw4w9WgXcQ"

\* C12: clean_video_url is idempotent: for every URL and every platform tag
\* (youtube, vimeo, loom, wistia, direct, unknown) a second application
\* returns what the first returned, and the identity key of the URL is the
\* same after the first and after the second application.
C12_CleanIsIdempotent ==
    /\ Len(cleaned_urls) >= 2 => cleaned_urls[2] = cleaned_urls[1]
    /\ Len(video_ids) >= 3 => video_ids[3] = video_ids[2]

C12_Witness ==
    /\ url_in = "https://www.youtube.com/oembed?url=https%3A%2F%2Fyoutu.be%2FdQw4w9WgXcQ"
    /\ platform_in = "youtube"
    /\ Len(cleaned_urls) = 2
    /\ Len(video_ids) = 3
    /\ cleaned_urls[1] # url_in
    /\ cleaned_urls[2] = "https://www.youtube.com/watch?v=dQw4w9WgXcQ"
    /\ video_ids[3] = "yt:dQw4w9WgXcQ"

\* C13: for a blacklisted video ID, is_valid_lesson_video returns False for
\* the youtu.be, watch?v=, /embed/ and youtube-nocookie embed form of its URL,
\* and a _final_video_validation call on such a URL returns None, whatever
\* the lesson title, the driver and the session state, and registers nothing.
C13_BlacklistedNeverPassesTheGate ==
    [][(\E id \in CACHED_VIDEO_BLACKLIST :
            url_in \in {"https://youtu.be/" \o id,
                        "https://www.youtube.com/watch?v=" \o id,
                        "https://www.youtube.com/embed/" \o id,
                        "https://www.youtube-nocookie.com/embed/" \o id})
        => /\ valid' # << >> => ~valid'[1]
           /\ direct'.at # direct.at
                => /\ direct'.ret = None
                   /\ ~reg'.called
                   /\ UNCHANGED <<SEEN_VIDEO_IDS_SESSION, SESSION_VIDEO_TRACKING,
                                  SESSION_STATS>>]_vars

C13_Witness ==
    /\ url_in = "https://www.youtube-nocookie.com/embed/65GvYDdzJWU"
    /\ valid = <<FALSE>>
    /\ direct.called
    /\ direct.at = clock
    /\ direct.drv.alive
    /\ direct.drv.containers
    /\ direct.ret = None
    /\ fin.called
    /\ ~fin.valid
    /\ SEEN_VIDEO_IDS_SESSION # {}

\* C14: is_valid_lesson_video returns False for a URL that matches no
\* platform signature (YouTube, Vimeo, Loom, Wistia) and is no direct media
\* file, which is what detect_platform calls unknown, and for a URL that is
\* empty or shorter than a minimal plausible length (10 characters in
\* validate_video_data of extract_single_with_youtube_fix.py).
C14_NoSignatureUrlFailsTheGate ==
    (valid # << >> /\ (detected = <<"unknown">> \/ Len(url_in) < 10)) => ~valid[1]

\* C15: a URL that ends in .jpg, .png, .gif or .webp, or that contains an
\* image-crop marker, is classified unknown by detect_platform and rejected
\* by is_valid_lesson_video, also when its host is a video platform.
C15_ImageUrlNeverAccepted ==
    ((\E ext \in {".jpg", ".png", ".gif", ".webp"} : EndsWith(Lower(url_in), ext))
       \/ Contains(Lower(url_in), "image_crop"))
    => /\ detected # << >> => detected = <<"unknown">>
       /\ valid # << >> => ~valid[1]

\* C16: validate_video_belongs_to_lesson returns False for a video whose URL
\* contains none of the identifiers of the lesson title, when the browser's
\* current URL is not the lesson's recorded URL and the page text contains
\* neither the lesson title nor a video-context keyword.
C16_NoSignalMeansRejected ==
    [][(/\ direct'.at # direct.at
        /\ fin'.called
        /\ fin'.valid
        /\ ~identifier_table[fin'.video_url][direct'.title]
        /\ direct'.drv.current_url # LESSON_CONTEXT.current_lesson_url
        /\ ~direct'.drv.title_present
        /\ ~direct'.drv.video_context_present)
       => ~fin'.relevant]_vars

\* C16 as amended: ... and the page has no element whose class contains
\* lesson, content, video or player, and no verdict for the (URL, title) pair
\* is in the validation cache.
C16_NoSignalNoContainerMeansRejected ==
    [][(/\ direct'.at # direct.at
        /\ fin'.called
        /\ fin'.valid
        /\ ~identifier_table[fin'.video_url][direct'.title]
        /\ direct'.drv.current_url # LESSON_CONTEXT.current_lesson_url
        /\ ~direct'.drv.title_present
        /\ ~direct'.drv.video_context_present
        /\ ~direct'.drv.containers
        /\ (fin'.video_url \o "|" \o direct'.title)
              \notin DOMAIN LESSON_CONTEXT.lesson_validation_cache)
       => ~fin'.relevant]_vars

C16_Witness ==
    /\ direct.called
    /\ direct.at = clock
    /\ direct.drv.alive
    /\ ~direct.drv.title_present
    /\ ~direct.drv.video_context_present
    /\ ~direct.drv.containers
    /\ LESSON_CONTEXT.current_lesson_url = LessonUrl(direct.title)
    /\ direct.drv.current_url # LESSON_CONTEXT.current_lesson_url
    /\ fin.called
    /\ fin.valid
    /\ ~identifier_table[fin.video_url][direct.title]
    /\ ~fin.relevant
    /\ direct.ret = None
    /\ DOMAIN LESSON_CONTEXT.lesson_validation_cache = {fin.video_url \o "|" \o direct.title}

\* C17: the content co-occurrence signal accepts a video when its combined
\* score is at least 0.7: on a page whose text has the lesson title (+0.4) and
\* a video-context keyword (+0.3) but not the candidate URL, a verdict computed
\* for a URL without lesson identifier, away from the lesson's recorded URL,
\* is an acceptance by page content.
C17_ExactlySevenTenthsClears ==
    [][(/\ direct'.at # direct.at
        /\ fin'.called
        /\ fin'.valid
        /\ (fin'.video_url \o "|" \o direct'.title)
              \notin DOMAIN LESSON_CONTEXT.lesson_validation_cache
        /\ ~identifier_table[fin'.video_url][direct'.title]
        /\ direct'.drv # NoDriver
        /\ direct'.drv.alive
        /\ direct'.drv.current_url # LESSON_CONTEXT.current_lesson_url
        /\ direct'.drv.title_present
        /\ direct'.drv.video_context_present
        /\ ~direct'.drv.url_in_text
        /\ _check_page_content_relevance(direct'.drv, direct'.title, fin'.video_url) = 7)
       => /\ fin'.relevant
          /\ LESSON_CONTEXT'.lesson_validation_cache[fin'.video_url \o "|" \o direct'.title].reason
                = "page_content_relevant"]_vars

\* C18: the lesson context, the relevance validation cache included, is reset
\* at the start of processing each lesson: when a lesson visit begins, no
\* verdict memoized during an earlier visit is left in the cache, so none can
\* be reused.
C18_CacheEmptyWhenLessonBegins ==
    [][(pc = "idle" /\ pc' = "run")
       => DOMAIN LESSON_CONTEXT'.lesson_validation_cache = {}]_vars

\* C19: right after a reset, _final_video_validation called without a browser
\* driver on a well-formed YouTube URL that is neither blacklisted nor
\* registered returns the video data, whatever the lesson title; a second call
\* with the same URL under another lesson title then returns None.
C19_DriverlessFirstCallAccepted ==
    [][/\ (/\ direct'.at # direct.at
            /\ direct'.drv = NoDriver
            /\ SEEN_VIDEO_IDS_SESSION = {}
            /\ DOMAIN SESSION_VIDEO_TRACKING = {}
            /\ DOMAIN LESSON_CONTEXT.lesson_validation_cache = {}
            /\ url_in \in {"https://www.youtube.com/watch?v=VALID_UNIQUE_ID",
                            "https://www.youtube.com/watch?v=dQw4w9WgXcQ&t=5",
                            "https://youtu.be/dQw4w9WgXcQ"}
            /\ platform_in = "youtube"
            /\ valid_table[url_in]
            /\ direct'.unseen)
           => /\ direct'.ret # None
              /\ direct'.ret.platform = "youtube"
       /\ (/\ direct.called
            /\ direct.ret # None
            /\ direct'.at # direct.at
            /\ direct'.drv = NoDriver
            /\ direct'.title # direct.title)
           => direct'.ret = None]_vars

\* C20: after reset_session_tracking(), whatever preceded it, the seen-key set
\* and the registration map are empty, every session counter and every
\* browser-isolation counter is 0 and the lesson validation cache is empty;
\* a registration made in that state succeeds and records its key, so a key
\* registered before the reset can be registered again.
C20_ResetClearsEverything ==
    [][/\ reset_session_tracking
           => /\ SEEN_VIDEO_IDS_SESSION' = {}
              /\ DOMAIN SESSION_VIDEO_TRACKING' = {}
              /\ SESSION_STATS'.videos_processed = 0
              /\ SESSION_STATS'.duplicates_blocked = 0
              /\ SESSION_STATS'.unique_videos_found = 0
              /\ SESSION_STATS'.lessons_processed = 0
              /\ SESSION_STATS'.extraction_methods_used = {}
              /\ SESSION_STATS'.platforms_detected = {}
              /\ BROWSER_ISOLATION'.browser_instances_created = 0
              /\ BROWSER_ISOLATION'.browser_instances_destroyed = 0
              /\ BROWSER_ISOLATION'.isolation_stats.lessons_with_isolated_browsers = 0
              /\ BROWSER_ISOLATION'.isolation_stats.lessons_with_shared_browser = 0
              /\ BROWSER_ISOLATION'.isolation_stats.browser_creation_time = 0
              /\ BROWSER_ISOLATION'.isolation_stats.browser_destruction_time = 0
              /\ DOMAIN LESSON_CONTEXT'.lesson_validation_cache = {}
       /\ (/\ reg'.called
            /\ SEEN_VIDEO_IDS_SESSION = {}
            /\ DOMAIN SESSION_VIDEO_TRACKING = {}
            /\ ~Falsy(reg'.video_url)
            /\ ~Falsy(video_id_table[reg'.video_url]))
           => /\ reg'.ret
              /\ SEEN_VIDEO_IDS_SESSION' = {video_id_table[reg'.video_url]}
              /\ SESSION_STATS'.unique_videos_found = 1]_vars

\* the clock shows two operations (registrations or lesson visits) but the
\* session holds a single registration, made at time 2 as the first of its
\* session, and no trace of the operation of time 1: the session was reset
\* after it, and the key (the only one the direct registrations use) was
\* registered anew
C20_Witness ==
    /\ clock = 2
    /\ pc = "idle"
    /\ LESSON_CONTEXT.current_lesson_title = NoneStr
    /\ DOMAIN LESSON_CONTEXT.lesson_validation_cache = {}
    /\ BROWSER_ISOLATION.browser_instances_created = 0
    /\ BROWSER_ISOLATION.isolation_stats.lessons_with_shared_browser = 0
    /\ reg.called
    /\ reg.ret
    /\ SEEN_VIDEO_IDS_SESSION = {video_id_table[reg.video_url]}
    /\ SESSION_VIDEO_TRACKING[video_id_table[reg.video_url]].timestamp = 2
    /\ SESSION_VIDEO_TRACKING[video_id_table[reg.video_url]].order = 1
    /\ SESSION_STATS.unique_videos_found = 1
    /\ SESSION_STATS.videos_processed = 1
    /\ SESSION_STATS.duplicates_blocked = 0

\* C29: after any sequence of reset_session_tracking and
\* register_video_in_session calls, videos_processed = unique_videos_found +
\* duplicates_blocked, unique_videos_found is the size of the seen-key set and
\* of the registration map, and the stored 'order' values are exactly
\* 1..unique_videos_found, none repeated.
C29_SessionCountersAgree ==
    /\ SESSION_STATS.videos_processed
         = SESSION_STATS.unique_videos_found + SESSION_STATS.duplicates_blocked
    /\ SESSION_STATS.unique_videos_found = Cardinality(SEEN_VIDEO_IDS_SESSION)
    /\ SESSION_STATS.unique_videos_found = Cardinality(DOMAIN SESSION_VIDEO_TRACKING)
    /\ {SESSION_VIDEO_TRACKING[k].order : k \in DOMAIN SESSION_VIDEO_TRACKING}
         = 1..SESSION_STATS.unique_videos_found

\* two different keys are registered, numbered 1 and 2
C29_Witness ==
    /\ Cardinality(SEEN_VIDEO_IDS_SESSION) = 2
    /\ SESSION_STATS.unique_videos_found = 2
    /\ \E k1, k2 \in DOMAIN SESSION_VIDEO_TRACKING :
          /\ SESSION_VIDEO_TRACKING[k1].order = 1
          /\ SESSION_VIDEO_TRACKING[k2].order = 2
          /\ SESSION_VIDEO_TRACKING[k1].timestamp < SESSION_VIDEO_TRACKING[k2].timestamp

\* C28: each extract_video_url call adds at most one identity key to the
\* session registry and returns a video exactly when it added one: a step of
\* the call either ends it with a video and registers exactly one new key
\* (unique_videos_found grows by one), or leaves the registry and
\* unique_videos_found as they were; what the lesson loop receives is the
\* video registered under the lesson's title, or nothing.
C28_OneKeyPerReturnedVideo ==
    [][/\ (pc = "eval")
           => /\ SEEN_VIDEO_IDS_SESSION \subseteq SEEN_VIDEO_IDS_SESSION'
              /\ (result' # None) <=> (pc' = "return" /\ SEEN_VIDEO_IDS_SESSION' # SEEN_VIDEO_IDS_SESSION)
              /\ Cardinality(SEEN_VIDEO_IDS_SESSION' \ SEEN_VIDEO_IDS_SESSION)
                    = (IF result' # None THEN 1 ELSE 0)
              /\ SESSION_STATS'.unique_videos_found
                    = SESSION_STATS.unique_videos_found + (IF result' # None THEN 1 ELSE 0)
              /\ (result' # None)
                    => /\ video_id_table[result'.url] \in SEEN_VIDEO_IDS_SESSION' \ SEEN_VIDEO_IDS_SESSION
                       /\ SESSION_VIDEO_TRACKING'[video_id_table[result'.url]].lesson_title = lesson_title
                       /\ DOMAIN SESSION_VIDEO_TRACKING' = SEEN_VIDEO_IDS_SESSION'
              /\ (result' = None) => SESSION_VIDEO_TRACKING' = SESSION_VIDEO_TRACKING
       /\ (pc \in {"run", "return"})
           => /\ SEEN_VIDEO_IDS_SESSION' = SEEN_VIDEO_IDS_SESSION
              /\ SESSION_VIDEO_TRACKING' = SESSION_VIDEO_TRACKING
              /\ SESSION_STATS'.unique_videos_found = SESSION_STATS.unique_videos_found]_vars

\* a second lesson of the session has returned its video: two calls returned
\* a video and two keys are registered
C28_Witness ==
    /\ pc = "return"
    /\ result # None
    /\ Len(lesson_videos) = 1
    /\ lesson_videos[1].lesson # lesson_title
    /\ SESSION_STATS.unique_videos_found = 2
    /\ Cardinality(SEEN_VIDEO_IDS_SESSION) = 2
    /\ SESSION_VIDEO_TRACKING[video_id_table[result.url]].lesson_title = lesson_title
    /\ SESSION_VIDEO_TRACKING[video_id_table[lesson_videos[1].video.url]].lesson_title
          = lesson_videos[1].lesson

\* C27: the session tracker only rejects re-use across different lessons: when
\* extract_video_url runs again for a lesson that already returned a video in
\* this session and a strategy surfaces that same video on the lesson's own
\* page, the candidate is not rejected as a duplicate: the call returns the
\* video it returned the first time.
C27_OwnVideoReturnedAgain ==
    [][(/\ pc = "eval"
        /\ video_data # None
        /\ driver.alive
        /\ driver.current_url = LessonUrl(lesson_title)
        /\ valid_table[video_data.url]
        /\ \E i \in 1..Len(lesson_videos) :
              /\ lesson_videos[i].lesson = lesson_title
              /\ lesson_videos[i].video.url = FinalUrl(video_data))
       => /\ pc' = "return"
          /\ result' # None
          /\ result'.url = FinalUrl(video_data)
          /\ SESSION_STATS'.duplicates_blocked = SESSION_STATS.duplicates_blocked
          /\ VIDEO_EXTRACTION_DEBUG_LOG' = VIDEO_EXTRACTION_DEBUG_LOG]_vars

C23_AtMostNPlusOneInvocations ==
    /\ eh.max_retries # NoneInt => eh.invocations <= eh.max_retries + 1
    /\ eh.pc = "returned" => eh.ret = eh.last /\ eh.ret \in ReturnValues
    /\ eh.pc \in {"attempt", "raised"} => eh.ret = NoneStr

\* C25: _normalize_video_url maps every YouTube, Vimeo, Loom and Wistia URL
\* form of a video, with or without an http(s) scheme and with or without a
\* www. prefix, to exactly the platform's canonical URL of that video, with
\* nothing of the input left before or after it.
C25_EveryFormToCanonical ==
    normalized # << >> =>
       \A s \in Schemes, w \in WwwPrefixes, f \in NormalizeForms :
          normalize_in = s \o w \o f.path => normalized[1] = f.canonical

\* C21: when process_lessons_with_direct_urls returns, every lesson has been
\* counted in exactly one of processed, skipped and failed, so that
\* processed + skipped + failed = total_lessons; an exception raised while one
\* lesson is processed is counted and the loop goes on to the next lesson.
C21_EveryLessonCountedOnce ==
    /\ bulk.pc \in {"loop", "done"} =>
          bulk.processed + bulk.skipped + bulk.failed = bulk.i
    /\ bulk.pc = "done" =>
          /\ bulk.i = bulk.total
          /\ bulk.processed + bulk.skipped + bulk.failed = bulk.total

\* a finished run of five lessons with skipped and failed ones, the last of
\* them visited after an exception in an earlier one
C21_Witness ==
    /\ bulk.pc = "done"
    /\ bulk.total = 5
    /\ bulk.skipped = 2
    /\ bulk.failed = 3
    /\ bulk.already

C26_OneExtractionPerLesson ==
    (bulk.pc \in {"loop", "done"} /\ bulk.i >= 1 /\ ~bulk.already) =>
       bulk.extract_calls = 1

\* C30: in a bulk run lessons_with_shared_browser never exceeds 10: once it is
\* 10, should_use_browser_isolation is True for every later lesson and no
\* later lesson goes to the shared browser.
C30_AtMostTenSharedLessons ==
    /\ [](BROWSER_ISOLATION.isolation_stats.lessons_with_shared_browser <= 10)
    /\ [][(/\ bulk.pc = "loop"
           /\ bulk'.i = bulk.i + 1
           /\ BROWSER_ISOLATION.isolation_stats.lessons_with_shared_browser >= 10)
          => /\ BROWSER_ISOLATION'.isolation_stats.lessons_with_shared_browser
                   = BROWSER_ISOLATION.isolation_stats.lessons_with_shared_browser
             /\ (~bulk'.already => bulk'.use_isolation)]_vars

\* ten lessons went to the shared browser, and lesson 17, neither early nor
\* periodic nor with a keyword in its title, is sent to an isolated one
C30_Witness ==
    /\ BROWSER_ISOLATION.isolation_stats.lessons_with_shared_browser = 10
    /\ bulk.i = 17
    /\ bulk.title = "Advanced Data Structures"
    /\ ~bulk.already
    /\ bulk.use_isolation

====
